---- MODULE Spec2Model ----
(***************************************************************************)
(* Model of the import-validation pipeline of npm-import-validator:        *)
(* ImportValidator (document cache, existence cache, per-import            *)
(* resolution), PackageInfoProvider (package-info cache, project index,    *)
(* registry fetch) and the retry helper.  Time is in milliseconds.  An     *)
(* asynchronous function is cut at its awaits: the synchronous prefix of a *)
(* call and every continuation that runs on one event (a response, a       *)
(* timer) is one action.                                                   *)
(***************************************************************************)
EXTENDS Integers, Sequences, FiniteSets, TLC

VARIABLES
    clock,                  \* Date.now()
    cacheTimeout,           \* configuration "cacheTimeout" (seconds)
    registry,               \* environment: which packages the registry holds
    manifest,               \* environment: package.json contents (name -> version, "" = absent)
    projectPackages,        \* PackageInfoProvider.projectPackages (name -> version, "" = absent)
    reloads,                \* loadProjectPackages: findFiles promises not yet resolved
    manifestChanges,        \* number of manifest edits so far
    _documentImportsCache,  \* ImportValidator._documentImportsCache
    _importExistenceCache,  \* ImportValidator._importExistenceCache
    packageInfoCache,       \* PackageInfoProvider.packageInfoCache
    call,                   \* one validateDocument invocation per caller
    task,                   \* per caller: the per-import resolutions of its invocation
    isProcessing,           \* FileProcessor.isProcessing
    cancelProcessing,       \* FileProcessor.cancelProcessing
    stats,                  \* FileProcessor.stats
    processedFilesInSession,    \* FileProcessor.processedFilesInSession
    processedImportsInSession,  \* FileProcessor.processedImportsInSession
    errorFilesInSession,    \* FileProcessor.errorFilesInSession
    processedFilesCache,    \* FileProcessor.processedFilesCache
    scan,                   \* the locals of the running doProcessWorkspace
    solo,                   \* one processFile invocation outside a scan
    returned,               \* the last value returned by processWorkspace
    mtime,                  \* the modification time of each workspace file
    packageJson,            \* environment: the workspace's package.json, by section
    workspaceImports,       \* per workspace file: the importNames validation yields
    unusedDependencies,     \* the last value returned by findUnusedDependencies
    analysed,               \* the last value returned by _analyzeDependencies
    rescan,                 \* the locals of the running findUnusedDependencies
    pathAliases,            \* configuration "pathAliases"
    _isLocalImportCache,    \* the cache of memoize around ImportValidator._isLocalImport
    classified,             \* what the last import statement met by the parser became
    parsed,                 \* the last _extractImportsFromDocument call: its text and outcome
    packageJsonFiles        \* environment: the package.json files of the workspace

fileProcessorVars == <<isProcessing, cancelProcessing, stats, processedFilesInSession,
                       processedImportsInSession, errorFilesInSession,
                       processedFilesCache, scan, solo, returned, mtime>>

validatorVars == <<cacheTimeout, registry, manifest, projectPackages, reloads,
                   manifestChanges, _documentImportsCache, _importExistenceCache,
                   packageInfoCache, call, task>>

dependencyVars == <<packageJson, workspaceImports, unusedDependencies, analysed,
                    rescan>>

classifierVars == <<pathAliases, _isLocalImportCache, classified, parsed>>

vars == <<clock, validatorVars, fileProcessorVars, dependencyVars, classifierVars,
          packageJsonFiles>>

(***************************************************************************)
(* Bounds of the model                                                     *)
(***************************************************************************)
MaxTime == 4000
MaxRetryTime == 12000
MaxConcTime == 2000
MaxCacheTimeout == 2
MaxManifestChanges == 1

ClockSteps == {1000}
DocClockStep == 5000
Callers == {1, 2}
Solo == {1}
Pkgs == {"axios"}
Docs == {"a.ts", "b.ts"}
OneDoc == {"a.ts"}
Texts == {<<"axios">>}
TwoImports == {<<"axios", "axios">>}
Versions == {"1.0.0"}

(***************************************************************************)
(* Program constants                                                       *)
(***************************************************************************)
MsPerSecond == 1000
PROCESSING_TIMEOUT == 10000
FetchAbortTimeout == 10000
fetchRetryCount == 3
fetchRetryDelay == 1000
retryMaxDelay == 10000
retryBackoffFactor == 2

Min(a, b) == IF a < b THEN a ELSE b

(***************************************************************************)
(* Values                                                                  *)
(***************************************************************************)
NullInfo == [kind |-> "null", name |-> "", version |-> "", license |-> "",
             downloads |-> 0, isInProject |-> FALSE]

\* The PackageInfo built from a registry answer; downloads is 0 when the
\* download-count request did not yield a count.
NpmInfo(packageName, gotDownloads, inProject) ==
    [kind |-> "npm", name |-> packageName, version |-> "2.0.0", license |-> "MIT",
     downloads |-> IF gotDownloads THEN 7 ELSE 0, isInProject |-> inProject]

minimalInfo(packageName, installedVersion) ==
    [kind |-> "minimal", name |-> packageName, version |-> installedVersion,
     license |-> "Unknown", downloads |-> 0, isInProject |-> TRUE]

\* Errors a fetch attempt can end with: name and the keywords its message holds.
AbortError == [name |-> "AbortError", message |-> {}]
HttpError == [name |-> "Error", message |-> {}]
FetchErrors == {[name |-> "FetchError", message |-> {"network"}],
                [name |-> "FetchError", message |-> {}]}

retryCondition(error) ==
    \/ error.name = "AbortError"
    \/ "network" \in error.message
    \/ "timeout" \in error.message

NoEntry == [has |-> FALSE, exists |-> FALSE, timestamp |-> 0, isInProject |-> FALSE, asOf |-> 0]
NoInfoEntry == [has |-> FALSE, info |-> NullInfo, timestamp |-> 0, asOf |-> 0]
NoDocEntry == [has |-> FALSE, results |-> <<>>, timestamp |-> 0]
IdleCall == [pc |-> "idle", doc |-> "", text |-> <<>>, now |-> 0, results |-> <<>>,
             parsed |-> FALSE, clearedInFlight |-> FALSE]

(***************************************************************************)
(* PackageInfoProvider                                                     *)
(***************************************************************************)
isPackageInProject(packageName) == projectPackages[packageName] # ""

getInstalledVersion(packageName) == projectPackages[packageName]

PackageInfoCacheFresh(packageName, now, timeout) ==
    /\ packageInfoCache[packageName].has
    /\ now - packageInfoCache[packageName].timestamp < timeout * MsPerSecond

(***************************************************************************)
(* ImportValidator                                                         *)
(***************************************************************************)
\* Mutant: the timeout is compared in seconds against an age in milliseconds.
_isCacheValid_Seconds(documentUri, now, timeout) ==
    /\ _documentImportsCache[documentUri].has
    /\ now - _documentImportsCache[documentUri].timestamp < timeout

_isCacheValid(documentUri, now, timeout) ==
    /\ _documentImportsCache[documentUri].has
    /\ now - _documentImportsCache[documentUri].timestamp < timeout * MsPerSecond

\* Mutant: an entry whose age equals the timeout still counts as fresh.
ExistenceCacheFresh_Inclusive(importName, now, timeout) ==
    /\ _importExistenceCache[importName].has
    /\ now - _importExistenceCache[importName].timestamp <= timeout * MsPerSecond

ExistenceCacheFresh(importName, now, timeout) ==
    /\ _importExistenceCache[importName].has
    /\ now - _importExistenceCache[importName].timestamp < timeout * MsPerSecond

(***************************************************************************)
(* One per-import resolution: the validator part (_validateImport) and the *)
(* provider part (getPackageInfo, fetchPackageInfoFromNpm, retry) it       *)
(* awaits.  path is the branch of _validateImport taken; vpc and ppc are   *)
(* the positions of the two parts.  attempts counts the calls of fn, delays *)
(* lists the retry delays waited, and outcome is how the registry lookup   *)
(* ended ("ok", "notfound", "failed"; "none" when there was no lookup).    *)
(***************************************************************************)
BaseTask(importName) ==
    [pkg |-> importName, isInProject |-> FALSE, path |-> "hit", vpc |-> "done",
     raceAt |-> 0, ppc |-> "none", pNow |-> 0, pVersion |-> "", attempt |-> 0,
     delay |-> 0, timerAt |-> 0, dataAt |-> 0, attempts |-> 0, delays |-> <<>>,
     outcome |-> "none",
     existsOnNpm |-> FALSE, packageInfo |-> NullInfo, asOf |-> 0]

\* getPackageInfo up to its first await: a fresh cache entry is returned at once,
\* otherwise the registry fetch starts.
ProviderStart(packageName) ==
    IF PackageInfoCacheFresh(packageName, clock, cacheTimeout)
    THEN [immediate |-> TRUE, info |-> packageInfoCache[packageName].info,
          asOf |-> packageInfoCache[packageName].asOf]
    ELSE [immediate |-> FALSE, info |-> NullInfo, asOf |-> 0]

\* The first call of fn by retry: a request with its abort timer.
StartFetch(t) ==
    [t EXCEPT !.ppc = "fetch", !.pNow = clock,
              !.pVersion = IF isPackageInProject(t.pkg) THEN getInstalledVersion(t.pkg) ELSE "",
              !.attempt = 0, !.delay = fetchRetryDelay,
              !.timerAt = clock + FetchAbortTimeout, !.attempts = 1, !.delays = <<>>]

\* _validateImport up to its first await.
StartImport(importName, now) ==
    LET inProj == isPackageInProject(importName)
        cache == _importExistenceCache[importName]
        g == ProviderStart(importName)
        base == [BaseTask(importName) EXCEPT !.isInProject = inProj]
    IN  IF ExistenceCacheFresh(importName, now, cacheTimeout)
        THEN IF cache.exists \/ cache.isInProject
             THEN IF g.immediate
                  THEN [base EXCEPT !.path = "hit", !.existsOnNpm = cache.exists,
                                    !.packageInfo = g.info, !.asOf = cache.asOf]
                  ELSE StartFetch([base EXCEPT !.path = "hit", !.vpc = "await",
                                    !.existsOnNpm = cache.exists, !.asOf = cache.asOf])
             ELSE [base EXCEPT !.path = "hit", !.asOf = cache.asOf]
        ELSE IF inProj
        THEN IF g.immediate
             THEN [base EXCEPT !.path = "project", !.existsOnNpm = TRUE,
                               !.packageInfo = g.info, !.asOf = clock]
             ELSE StartFetch([base EXCEPT !.path = "project", !.vpc = "await"])
        ELSE IF g.immediate
             THEN [base EXCEPT !.path = "race", !.existsOnNpm = (g.info # NullInfo),
                               !.packageInfo = g.info, !.asOf = g.asOf]
             ELSE StartFetch([base EXCEPT !.path = "race", !.vpc = "await",
                               !.raceAt = clock + PROCESSING_TIMEOUT])

\* Mutant: the entry is stamped with the time of the write, not of the call.
ExistenceEntry_StampedAtWrite(t, now) ==
    [has |-> TRUE, exists |-> t.existsOnNpm, timestamp |-> clock,
     isInProject |-> t.isInProject, asOf |-> t.asOf]

\* Mutant: the two booleans of the entry are swapped.
ExistenceEntry_Swapped(t, now) ==
    [has |-> TRUE, exists |-> t.isInProject, timestamp |-> now,
     isInProject |-> t.existsOnNpm, asOf |-> t.asOf]

\* The existence-cache entry a finished resolution (not a cache hit) writes.
ExistenceEntry(t, now) ==
    [has |-> TRUE, exists |-> t.existsOnNpm, timestamp |-> now,
     isInProject |-> t.isInProject, asOf |-> t.asOf]

ImportResultOf(t) ==
    [importName |-> t.pkg, existsOnNpm |-> t.existsOnNpm, packageInfo |-> t.packageInfo,
     isInProject |-> t.isInProject, asOf |-> t.asOf]

\* Mutant: an import whose resolution found nothing is dropped from the vector.
ResultsOf_DropFailed(ts) ==
    LET all == [i \in DOMAIN ts |-> ImportResultOf(ts[i])]
        kept(r) == r.existsOnNpm \/ r.packageInfo # NullInfo
    IN  SelectSeq(all, kept)

\* Mutant: the vector lists the results in the order the resolutions got
\* their answers.
ResultsOf_CompletionOrder(ts) ==
    LET all == [i \in DOMAIN ts |-> ImportResultOf(ts[i])]
        p == CHOOSE q \in [DOMAIN ts -> DOMAIN ts] :
                \A i, j \in DOMAIN ts :
                    i < j => \/ all[q[i]].asOf < all[q[j]].asOf
                             \/ all[q[i]].asOf = all[q[j]].asOf /\ q[i] < q[j]
    IN  [i \in DOMAIN ts |-> all[p[i]]]

ResultsOf(ts) == [i \in DOMAIN ts |-> ImportResultOf(ts[i])]

AllSettled(ts) == \A i \in DOMAIN ts : ts[i].vpc = "done"

\* No provider part of the caller's last invocation is still running.
Quiet(c) == \A i \in DOMAIN task[c] : task[c][i].ppc \in {"none", "done"}

\* A document text is represented by the sequence of package names its import
\* statements name, in order of appearance.
_extractImportsFromDocument(text) == text

(***************************************************************************)
(* validateDocument up to its first await: the document-cache check, the   *)
(* parse, and the synchronous prefix of every per-import resolution.  A    *)
(* resolution answered from the caches settles in the same turn.           *)
(***************************************************************************)
validateDocument(c, documentUri, text) ==
    /\ call[c].pc # "running"
    /\ Quiet(c)
    /\ IF _isCacheValid(documentUri, clock, cacheTimeout)
       THEN /\ call' = [call EXCEPT ![c] =
                          [pc |-> "returned", doc |-> documentUri, text |-> text,
                           now |-> clock,
                           results |-> _documentImportsCache[documentUri].results,
                           parsed |-> FALSE, clearedInFlight |-> FALSE]]
            /\ task' = [task EXCEPT ![c] = <<>>]
            /\ UNCHANGED <<_documentImportsCache, _importExistenceCache>>
       ELSE LET imports == _extractImportsFromDocument(text)
                ts == [i \in DOMAIN imports |-> StartImport(imports[i], clock)]
                wrote(p) == {i \in DOMAIN ts : /\ ts[i].pkg = p
                                               /\ ts[i].vpc = "done"
                                               /\ ts[i].path # "hit"}
            IN  /\ task' = [task EXCEPT ![c] = ts]
                /\ _importExistenceCache' =
                      [p \in Pkgs |->
                          IF wrote(p) = {} THEN _importExistenceCache[p]
                          ELSE ExistenceEntry(ts[CHOOSE i \in wrote(p) : TRUE], clock)]
                /\ IF AllSettled(ts)
                   THEN /\ call' = [call EXCEPT ![c] =
                                      [pc |-> "returned", doc |-> documentUri,
                                       text |-> text, now |-> clock,
                                       results |-> ResultsOf(ts), parsed |-> TRUE,
                                       clearedInFlight |-> FALSE]]
                        /\ _documentImportsCache' =
                              [_documentImportsCache EXCEPT ![documentUri] =
                                  [has |-> TRUE, results |-> ResultsOf(ts),
                                   timestamp |-> clock]]
                   ELSE /\ call' = [call EXCEPT ![c] =
                                      [pc |-> "running", doc |-> documentUri,
                                       text |-> text, now |-> clock,
                                       results |-> <<>>, parsed |-> TRUE,
                                       clearedInFlight |-> FALSE]]
                        /\ UNCHANGED _documentImportsCache
    /\ UNCHANGED <<clock, cacheTimeout, registry, manifest, projectPackages, reloads,
                   manifestChanges, packageInfoCache, fileProcessorVars, classifierVars,
                   packageJsonFiles>>

\* validateDocument called by the editor's listeners.
ValidateDocument(c, documentUri, text) ==
    /\ validateDocument(c, documentUri, text)
    /\ UNCHANGED dependencyVars

(***************************************************************************)
(* Continuations                                                           *)
(***************************************************************************)
envUnchanged == UNCHANGED <<clock, cacheTimeout, registry, manifest, projectPackages,
                            reloads, manifestChanges, fileProcessorVars, classifierVars,
                   packageJsonFiles,
                   dependencyVars>>

\* Promise.all of _validateImports resolves once every resolution has settled:
\* validateDocument then stores the vector under the call's timestamp and returns.
FinishCall(c, ts) ==
    /\ task' = [task EXCEPT ![c] = ts]
    /\ IF call[c].pc = "running" /\ AllSettled(ts)
       THEN /\ call' = [call EXCEPT ![c].pc = "returned", ![c].results = ResultsOf(ts)]
            /\ _documentImportsCache' =
                  [_documentImportsCache EXCEPT ![call[c].doc] =
                      [has |-> TRUE, results |-> ResultsOf(ts), timestamp |-> call[c].now]]
       ELSE UNCHANGED <<call, _documentImportsCache>>

\* The locals of a finished provider part are dead.
ProviderDone(t) ==
    [t EXCEPT !.ppc = "done", !.pNow = 0, !.pVersion = "", !.attempt = 0, !.delay = 0,
              !.timerAt = 0, !.dataAt = 0]

\* Mutant: a non-project package whose lookup gave nothing is assumed to exist.
ValidatorContinue_AssumeExists(t, info, infoAsOf) ==
    IF t.vpc # "await" THEN t
    ELSE IF t.path = "hit"
    THEN [t EXCEPT !.vpc = "done", !.packageInfo = info]
    ELSE IF t.path = "project"
    THEN [t EXCEPT !.vpc = "done", !.existsOnNpm = TRUE, !.packageInfo = info,
                   !.asOf = clock]
    ELSE [t EXCEPT !.vpc = "done", !.raceAt = 0, !.existsOnNpm = TRUE,
                   !.packageInfo = info, !.asOf = infoAsOf]

\* _validateImport after its await of getPackageInfo returned info.
ValidatorContinue(t, info, infoAsOf) ==
    IF t.vpc # "await" THEN t
    ELSE IF t.path = "hit"
    THEN [t EXCEPT !.vpc = "done", !.packageInfo = info]
    ELSE IF t.path = "project"
    THEN [t EXCEPT !.vpc = "done", !.existsOnNpm = TRUE, !.packageInfo = info,
                   !.asOf = clock]
    ELSE [t EXCEPT !.vpc = "done", !.raceAt = 0, !.existsOnNpm = (info # NullInfo),
                   !.packageInfo = info, !.asOf = infoAsOf]

\* fetchPackageInfoFromNpm returned v to getPackageInfo: the project branch
\* returns a registry record as it is and otherwise caches the minimal record,
\* the other branch caches whatever it got; then the awaiting validator runs.
Settle(c, i, v, vAsOf, outcome) ==
    LET t == [task[c][i] EXCEPT !.outcome = outcome]
        proj == t.pVersion # ""
        info == IF proj /\ v = NullInfo THEN minimalInfo(t.pkg, t.pVersion) ELSE v
        t2 == ValidatorContinue(ProviderDone(t), info, vAsOf)
    IN  /\ packageInfoCache' =
              IF proj /\ v # NullInfo THEN packageInfoCache
              ELSE [packageInfoCache EXCEPT ![t.pkg] =
                      [has |-> TRUE, info |-> info, timestamp |-> t.pNow, asOf |-> vAsOf]]
        /\ _importExistenceCache' =
              IF t.vpc = "await" /\ t.path # "hit"
              THEN [_importExistenceCache EXCEPT ![t.pkg] = ExistenceEntry(t2, call[c].now)]
              ELSE _importExistenceCache
        /\ FinishCall(c, [task[c] EXCEPT ![i] = t2])

(***************************************************************************)
(* retry                                                                   *)
(***************************************************************************)
\* Mutant: the last retry is never made.
retryRethrows_OffByOne(attempt, maxRetries, error) ==
    attempt >= maxRetries - 1 \/ ~retryCondition(error)

retryRethrows(attempt, maxRetries, error) ==
    attempt >= maxRetries \/ ~retryCondition(error)

\* Mutant: the delay grows linearly.
nextDelay_Linear(delay, backoffFactor, maxDelay) ==
    Min(delay + fetchRetryDelay, maxDelay)

nextDelay(delay, backoffFactor, maxDelay) == Min(delay * backoffFactor, maxDelay)

\* An attempt of fn threw error: retry rethrows it (fetchPackageInfoFromNpm then
\* returns null) or waits the current delay.
Failure(c, i, error) ==
    LET t == task[c][i]
    IN  IF retryRethrows(t.attempt, fetchRetryCount, error)
        THEN Settle(c, i, NullInfo, clock, "failed")
        ELSE /\ task' = [task EXCEPT ![c][i] =
                           [t EXCEPT !.ppc = "delay", !.timerAt = clock + t.delay,
                                     !.delays = Append(t.delays, t.delay)]]
             /\ UNCHANGED <<call, _documentImportsCache, _importExistenceCache,
                            packageInfoCache>>

InFetch(c, i) == i \in DOMAIN task[c] /\ task[c][i].ppc = "fetch"

\* The validator's own timer of a resolution is armed and not yet fired.
RacePending(t) == t.vpc = "await" /\ t.path = "race"

\* The retry delay has elapsed: the delay grows and fn is called again.
DelayFire(c, i) ==
    /\ i \in DOMAIN task[c]
    /\ task[c][i].ppc = "delay"
    /\ clock >= task[c][i].timerAt
    /\ task' = [task EXCEPT ![c][i] =
                  [@ EXCEPT !.ppc = "fetch", !.attempt = @ + 1, !.attempts = @ + 1,
                            !.delay = nextDelay(@, retryBackoffFactor, retryMaxDelay),
                            !.timerAt = clock + FetchAbortTimeout]]
    /\ UNCHANGED <<call, _documentImportsCache, _importExistenceCache, packageInfoCache>>
    /\ envUnchanged

(***************************************************************************)
(* fetchPackageInfoFromNpm: the outcomes of one attempt                    *)
(***************************************************************************)
Respond404(c, i) ==
    /\ InFetch(c, i)
    /\ ~registry[task[c][i].pkg]
    /\ Settle(c, i, NullInfo, clock, "notfound")
    /\ envUnchanged

\* A 2xx answer: the abort timer is cleared and the download count is requested.
Respond200(c, i) ==
    /\ InFetch(c, i)
    /\ registry[task[c][i].pkg]
    /\ task' = [task EXCEPT ![c][i] =
                  [@ EXCEPT !.ppc = "downloads", !.timerAt = 0, !.dataAt = clock]]
    /\ UNCHANGED <<call, _documentImportsCache, _importExistenceCache, packageInfoCache>>
    /\ envUnchanged

RespondNotOk(c, i) ==
    /\ InFetch(c, i)
    /\ Failure(c, i, HttpError)
    /\ envUnchanged

FetchThrows(c, i, error) ==
    /\ InFetch(c, i)
    /\ Failure(c, i, error)
    /\ envUnchanged

\* controller.abort() after 10 s.  Of two timers due together the one set first
\* (the validator's) fires first.
AbortFire(c, i) ==
    /\ InFetch(c, i)
    /\ clock >= task[c][i].timerAt
    /\ ~(RacePending(task[c][i]) /\ task[c][i].raceAt <= task[c][i].timerAt)
    /\ Failure(c, i, AbortError)
    /\ envUnchanged

\* Mutant: a download-count request that fails makes the attempt fail.
DownloadsRespond_FailsLookup(c, i, outcome) ==
    /\ i \in DOMAIN task[c]
    /\ task[c][i].ppc = "downloads"
    /\ IF outcome = "ok"
       THEN Settle(c, i, NpmInfo(task[c][i].pkg, TRUE, isPackageInProject(task[c][i].pkg)),
                   task[c][i].dataAt, "ok")
       ELSE Failure(c, i, HttpError)
    /\ envUnchanged

\* The download-count request ended: with a count, with a non-OK status or by
\* throwing.  It has no abort signal.
DownloadsRespond(c, i, outcome) ==
    /\ i \in DOMAIN task[c]
    /\ task[c][i].ppc = "downloads"
    /\ Settle(c, i, NpmInfo(task[c][i].pkg, outcome = "ok",
                            isPackageInProject(task[c][i].pkg)), task[c][i].dataAt, "ok")
    /\ envUnchanged

(***************************************************************************)
(* _validateImport: the PROCESSING_TIMEOUT timer wins the race             *)
(***************************************************************************)
RaceFire(c, i) ==
    /\ i \in DOMAIN task[c]
    /\ RacePending(task[c][i])
    /\ clock >= task[c][i].raceAt
    /\ LET t2 == [task[c][i] EXCEPT !.vpc = "done", !.raceAt = 0, !.existsOnNpm = FALSE,
                                   !.packageInfo = NullInfo, !.asOf = clock]
       IN  /\ _importExistenceCache' =
                 [_importExistenceCache EXCEPT ![t2.pkg] = ExistenceEntry(t2, call[c].now)]
           /\ FinishCall(c, [task[c] EXCEPT ![i] = t2])
    /\ UNCHANGED packageInfoCache
    /\ envUnchanged

(***************************************************************************)
(* Environment                                                             *)
(***************************************************************************)
TimerDue ==
    \E c \in Callers : \E i \in DOMAIN task[c] :
        \/ task[c][i].ppc \in {"fetch", "delay"} /\ task[c][i].timerAt <= clock
        \/ RacePending(task[c][i]) /\ task[c][i].raceAt <= clock

Tick(step, horizon) ==
    /\ clock + step <= horizon
    /\ ~TimerDue
    /\ clock' = clock + step
    /\ UNCHANGED <<cacheTimeout, registry, manifest, projectPackages, reloads,
                   manifestChanges, _documentImportsCache, _importExistenceCache,
                   packageInfoCache, call, task, fileProcessorVars, classifierVars,
                   packageJsonFiles,
                   dependencyVars>>

clearCaches ==
    /\ _documentImportsCache' = [d \in Docs |-> NoDocEntry]
    /\ _importExistenceCache' = [p \in Pkgs |-> NoEntry]
    /\ call' = [c \in DOMAIN call |->
                   IF call[c].pc = "running"
                   THEN [call[c] EXCEPT !.clearedInFlight = TRUE]
                   ELSE call[c]]
    /\ UNCHANGED <<clock, cacheTimeout, registry, manifest, projectPackages, reloads,
                   manifestChanges, packageInfoCache, task, fileProcessorVars, classifierVars,
                   packageJsonFiles,
                   dependencyVars>>

\* A package.json is edited; the watcher calls loadProjectPackages, which clears
\* the index at once and fills it when findFiles resolves.
ManifestChange(p, version) ==
    /\ manifestChanges < MaxManifestChanges
    /\ manifest[p] # version
    /\ manifest' = [manifest EXCEPT ![p] = version]
    /\ manifestChanges' = manifestChanges + 1
    /\ projectPackages' = [q \in Pkgs |-> ""]
    /\ reloads' = reloads + 1
    /\ UNCHANGED <<clock, cacheTimeout, registry, _documentImportsCache,
                   _importExistenceCache, packageInfoCache, call, task, fileProcessorVars, classifierVars,
                   packageJsonFiles,
                   dependencyVars>>

\* findFiles resolved: every manifest is read and its dependencies are added.
loadProjectPackagesDone ==
    /\ reloads > 0
    /\ reloads' = reloads - 1
    /\ projectPackages' = [q \in Pkgs |-> IF manifest[q] # "" THEN manifest[q]
                                          ELSE projectPackages[q]]
    /\ UNCHANGED <<clock, cacheTimeout, registry, manifest, manifestChanges,
                   _documentImportsCache, _importExistenceCache, packageInfoCache,
                   call, task, fileProcessorVars, classifierVars,
                   packageJsonFiles,
                   dependencyVars>>

(***************************************************************************)
(* FileProcessor (src/unnamed/part_011)                                    *)
(***************************************************************************)
MaxScans == 2
MaxSessionScans == 1
MaxScanTime == 1000
ScanClockStep == 1000
batchSize == 2
maxFiles == 1000

ScanFiles == <<"f1", "f2", "f3", "f4", "f5">>
FileNames == {ScanFiles[k] : k \in DOMAIN ScanFiles}
EligibleLists == {<<>>, ScanFiles}

\* The Uris countEligibleFiles may return: those of the workspace files and a
\* second Uri of f1, found under another include pattern.
Candidates == FileNames \cup {"f1b"}

\* Uri.fsPath
fsPath(file) == IF file = "f1b" THEN "f1" ELSE file
SoloFiles == {"f1"}

\* The results the validator returns for the workspace files: f1 imports the
\* same package in two import statements, f2 a misspelt package and a
\* framework package, every other file one package.
Used == [importName |-> "axios", importType |-> "import", existsOnNpm |-> TRUE,
         isFramework |-> FALSE, isInProject |-> TRUE]
Typo == [importName |-> "lodahs", importType |-> "require", existsOnNpm |-> FALSE,
         isFramework |-> FALSE, isInProject |-> FALSE]
Framework == [importName |-> "react", importType |-> "import", existsOnNpm |-> TRUE,
              isFramework |-> TRUE, isInProject |-> TRUE]

validateDocumentResults(filePath) ==
    CASE filePath = "f1" -> <<Used, Used>>
      [] filePath = "f2" -> <<Typo, Framework>>
      [] OTHER -> <<Used>>

createEmptyStats ==
    [totalFiles |-> 0, processedFiles |-> 0, skippedFiles |-> 0, unchangedFiles |-> 0,
     totalImports |-> 0, validImports |-> 0, invalidImports |-> 0,
     frameworkImports |-> 0, projectImports |-> 0, processingPercentage |-> 0,
     errorFiles |-> <<>>]

NoJob == [pc |-> "none", has |-> FALSE, lastProcessed |-> 0]
DoneJob == [pc |-> "done", has |-> FALSE, lastProcessed |-> 0]
NoStamp == [has |-> FALSE, at |-> 0]

IdleScan == [pc |-> "idle", files |-> <<>>, i |-> 0, processedCount |-> 0,
             skippedCount |-> 0, unchangedCount |-> 0,
             job |-> [f \in Candidates |-> NoJob], reports |-> <<>>, runs |-> 0,
             active |-> 0, admittedAtCancel |-> -1, cancelledBefore |-> FALSE]
IdleSolo == [pc |-> "idle", file |-> ""]

FileProcessorInit ==
    /\ isProcessing = FALSE
    /\ cancelProcessing = FALSE
    /\ stats = createEmptyStats
    /\ processedFilesInSession = {}
    /\ processedImportsInSession = {}
    /\ errorFilesInSession = {}
    /\ processedFilesCache = [f \in FileNames |-> NoStamp]
    /\ scan = IdleScan
    /\ solo = IdleSolo
    /\ returned = [by |-> "none", stats |-> createEmptyStats]
    /\ mtime = [f \in FileNames |-> 0]

isForceReprocessing == cancelProcessing = FALSE

importKey(filePath, result) == <<filePath, result.importName, result.importType>>

Bit(b) == IF b THEN 1 ELSE 0

\* The loop of updateStatsForFile over the results, from the left.
RECURSIVE countImports(_, _, _, _, _)
countImports(filePath, results, isWorkspaceScan, keys, acc) ==
    IF results = <<>> THEN [keys |-> keys, counts |-> acc]
    ELSE LET result == Head(results)
             key == importKey(filePath, result)
         IN  IF isWorkspaceScan /\ key \in keys
             THEN countImports(filePath, Tail(results), isWorkspaceScan, keys, acc)
             ELSE countImports(filePath, Tail(results), isWorkspaceScan, keys \cup {key},
                    [validImports |-> acc.validImports
                                        + Bit(result.existsOnNpm /\ ~result.isFramework),
                     invalidImports |-> acc.invalidImports
                                        + Bit(~result.existsOnNpm /\ ~result.isFramework),
                     frameworkImports |-> acc.frameworkImports + Bit(result.isFramework),
                     projectImports |-> acc.projectImports + Bit(result.isInProject)])

updateStatsForFile(st, keys, filePath, results, isWorkspaceScan) ==
    LET c == countImports(filePath, results, isWorkspaceScan, keys,
                          [validImports |-> 0, invalidImports |-> 0,
                           frameworkImports |-> 0, projectImports |-> 0])
    IN  [keys |-> c.keys,
         stats |-> [st EXCEPT !.totalImports = @ + Len(results),
                              !.validImports = @ + c.counts.validImports,
                              !.invalidImports = @ + c.counts.invalidImports,
                              !.frameworkImports = @ + c.counts.frameworkImports,
                              !.projectImports = @ + c.counts.projectImports,
                              !.processedFiles = @ + Bit(isWorkspaceScan)]]

\* errorFiles.push(filePath) unless it is included already.
pushErrorFile(st, filePath) ==
    IF \E k \in DOMAIN st.errorFiles : st.errorFiles[k] = filePath THEN st
    ELSE [st EXCEPT !.errorFiles = Append(@, filePath)]

\* Mutant: a batch is all that is left of the list.
Batch_Unbounded(sc) == {sc.files[k] : k \in {k \in DOMAIN sc.files : sc.i < k}}

\* filesToProcess.slice(i, i + batchSize), as a set of files.
Batch(sc) == {sc.files[k] : k \in {k \in DOMAIN sc.files : sc.i < k /\ k <= sc.i + batchSize}}

\* Math.round(x / y) for non-negative x and positive y.
Round(x, y) == (2 * x + y) \div (2 * y)

percentComplete(sc) ==
    Min(100, Round((sc.i + Cardinality(Batch(sc))) * 90, Len(sc.files)) + 10)

\* The for statement of doProcessWorkspace, from its condition on: either the
\* synchronous part of every file of the next batch, or the statements after
\* the loop.  settle is the continuation of await Promise.all(batchPromises),
\* taken once every file of the batch is done.  A batch none of whose files
\* reaches an await settles in the same turn.
\* Mutant: the batch loop does not look at the cancellation flag.
Admit_IgnoreCancel(sc) == sc.i < Len(sc.files)

\* Mutant: the flag is looked at before the first batch only.
Admit_CheckedOnce(sc) == sc.i < Len(sc.files) /\ (sc.i > 0 \/ ~cancelProcessing)

Admit(sc) == sc.i < Len(sc.files) /\ ~cancelProcessing

RECURSIVE loop(_, _, _)
RECURSIVE settle(_, _, _)
loop(sc, st, session) ==
    IF Admit(sc)
    THEN LET batch == Batch(sc)
             started == [sc EXCEPT
                 !.job = [f \in Candidates |->
                            IF f \notin batch THEN sc.job[f]
                            ELSE IF fsPath(f) \in session THEN DoneJob
                            ELSE [pc |-> "stat", has |-> processedFilesCache[fsPath(f)].has,
                                  lastProcessed |-> processedFilesCache[fsPath(f)].at]],
                 !.unchangedCount = @ + Cardinality({f \in batch : fsPath(f) \in session})]
         IN  settle(started, st, session)
    ELSE [scan |-> [sc EXCEPT !.pc = "returning"],
          stats |-> [st EXCEPT !.processedFiles = sc.processedCount,
                               !.skippedFiles = sc.skippedCount,
                               !.unchangedFiles = sc.unchangedCount,
                               !.processingPercentage = 100]]

settle(sc, st, session) ==
    IF \E f \in Batch(sc) : sc.job[f].pc # "done"
    THEN [scan |-> sc, stats |-> st]
    ELSE loop([sc EXCEPT !.i = @ + batchSize, !.reports = Append(@, percentComplete(sc))],
              [st EXCEPT !.processingPercentage = percentComplete(sc)], session)

\* Mutant: the guard of processWorkspace is dropped.
Busy_Never == FALSE

Busy == isProcessing

clockUnchanged ==
    UNCHANGED <<clock, validatorVars, dependencyVars, classifierVars, packageJsonFiles>>

\* Mutant: a new scan does not clear the cancellation flag.
processWorkspace_KeepsFlag(forceReprocess) ==
    /\ IF Busy
       THEN /\ returned' = [by |-> "busy", stats |-> stats]
            /\ UNCHANGED <<isProcessing, cancelProcessing, stats, processedFilesInSession,
                           processedImportsInSession, errorFilesInSession, scan>>
       ELSE /\ isProcessing' = TRUE
            /\ UNCHANGED cancelProcessing
            /\ stats' = IF forceReprocess THEN createEmptyStats ELSE stats
            /\ processedFilesInSession' = IF forceReprocess THEN {} ELSE processedFilesInSession
            /\ processedImportsInSession' =
                   IF forceReprocess THEN {} ELSE processedImportsInSession
            /\ errorFilesInSession' = IF forceReprocess THEN {} ELSE errorFilesInSession
            /\ scan' = [IdleScan EXCEPT !.pc = "count", !.runs = scan.runs + 1,
                                        !.active = scan.active + 1,
                                        !.cancelledBefore = cancelProcessing]
            /\ UNCHANGED returned
    /\ UNCHANGED <<processedFilesCache, solo, mtime>>
    /\ clockUnchanged

\* cancelledBefore records the value the flag had when the scan was started.
processWorkspace(forceReprocess) ==
    /\ IF Busy
       THEN /\ returned' = [by |-> "busy", stats |-> stats]
            /\ UNCHANGED <<isProcessing, cancelProcessing, stats, processedFilesInSession,
                           processedImportsInSession, errorFilesInSession, scan>>
       ELSE /\ isProcessing' = TRUE
            /\ cancelProcessing' = FALSE
            /\ stats' = IF forceReprocess THEN createEmptyStats ELSE stats
            /\ processedFilesInSession' = IF forceReprocess THEN {} ELSE processedFilesInSession
            /\ processedImportsInSession' =
                   IF forceReprocess THEN {} ELSE processedImportsInSession
            /\ errorFilesInSession' = IF forceReprocess THEN {} ELSE errorFilesInSession
            /\ scan' = [IdleScan EXCEPT !.pc = "count", !.runs = scan.runs + 1,
                                        !.active = scan.active + 1,
                                        !.cancelledBefore = cancelProcessing]
            /\ UNCHANGED returned
    /\ UNCHANGED <<processedFilesCache, solo, mtime>>
    /\ clockUnchanged

\* countEligibleFiles resolves; the first batch starts in the same turn.
countEligibleFilesDone(eligibleFiles) ==
    /\ scan.pc = "count"
    /\ LET st == [stats EXCEPT !.totalFiles = Len(eligibleFiles)]
           sc == [scan EXCEPT !.pc = "batch",
                              !.files = SubSeq(eligibleFiles, 1,
                                               Min(Len(eligibleFiles), maxFiles))]
           r == IF eligibleFiles = <<>>
                THEN [scan |-> [scan EXCEPT !.pc = "returning"], stats |-> st]
                ELSE loop(sc, st, processedFilesInSession)
       IN  scan' = r.scan /\ stats' = r.stats
    /\ UNCHANGED <<isProcessing, cancelProcessing, processedFilesInSession,
                   processedImportsInSession, errorFilesInSession, processedFilesCache,
                   solo, returned, mtime>>
    /\ clockUnchanged

AtJob(f, pc) == scan.pc = "batch" /\ scan.job[f].pc = pc

\* fs.stat resolves for a file of the running batch.
statDone(f) ==
    /\ AtJob(f, "stat")
    /\ IF scan.job[f].has /\ mtime[fsPath(f)] <= scan.job[f].lastProcessed
                          /\ ~isForceReprocessing
       THEN LET r == settle([scan EXCEPT !.job[f] = DoneJob, !.unchangedCount = @ + 1],
                            stats, processedFilesInSession)
            IN  scan' = r.scan /\ stats' = r.stats
       ELSE /\ scan' = [scan EXCEPT !.job[f].pc = "validate"]
            /\ UNCHANGED stats
    /\ UNCHANGED <<isProcessing, cancelProcessing, processedFilesInSession,
                   processedImportsInSession, errorFilesInSession, processedFilesCache,
                   solo, returned, mtime>>
    /\ clockUnchanged

\* openTextDocument and validateDocument have resolved for a file of the batch.
validateDone(f) ==
    /\ AtJob(f, "validate")
    /\ LET session == processedFilesInSession \cup {fsPath(f)}
           u == updateStatsForFile(stats, processedImportsInSession, fsPath(f),
                                   validateDocumentResults(fsPath(f)), TRUE)
           r == settle([scan EXCEPT !.job[f] = DoneJob, !.processedCount = @ + 1],
                       u.stats, session)
       IN  /\ processedFilesInSession' = session
           /\ processedImportsInSession' = u.keys
           /\ scan' = r.scan
           /\ stats' = r.stats
    /\ processedFilesCache' =
          [processedFilesCache EXCEPT ![fsPath(f)] = [has |-> TRUE, at |-> clock]]
    /\ UNCHANGED <<isProcessing, cancelProcessing, errorFilesInSession, solo, returned,
                   mtime>>
    /\ clockUnchanged

\* Mutant: the error of one file ends the batch loop.
caught_AbortsScan(sc, f) ==
    [sc EXCEPT !.job = [g \in Candidates |-> IF sc.job[g].pc = "none" THEN NoJob ELSE DoneJob],
               !.skippedCount = @ + 1, !.i = Len(sc.files)]

\* The catch clause of the file's callback.
caught(sc, f) == [sc EXCEPT !.job[f] = DoneJob, !.skippedCount = @ + 1]

\* fs.stat, openTextDocument or validateDocument rejects for a file of the batch.
jobThrows(f) ==
    /\ AtJob(f, "stat") \/ AtJob(f, "validate")
    /\ LET r == settle(caught(scan, f),
                       pushErrorFile(stats, fsPath(f)), processedFilesInSession)
       IN  scan' = r.scan /\ stats' = r.stats
    /\ errorFilesInSession' = errorFilesInSession \cup {fsPath(f)}
    /\ UNCHANGED <<isProcessing, cancelProcessing, processedFilesInSession,
                   processedImportsInSession, processedFilesCache, solo, returned, mtime>>
    /\ clockUnchanged

\* The finally block of processWorkspace, and its return.
processWorkspaceReturns ==
    /\ scan.pc = "returning"
    /\ isProcessing' = FALSE
    /\ scan' = [scan EXCEPT !.pc = "idle", !.active = @ - 1]
    /\ returned' = [by |-> "scan", stats |-> stats]
    /\ UNCHANGED <<cancelProcessing, stats, processedFilesInSession,
                   processedImportsInSession, errorFilesInSession, processedFilesCache,
                   solo, mtime>>
    /\ clockUnchanged

\* The number of files of the running scan whose work has started.
Admitted(sc) == IF sc.pc = "count" THEN 0 ELSE Min(Len(sc.files), sc.i + batchSize)

cancelProcessingOperation ==
    /\ cancelProcessing' = TRUE
    /\ scan' = IF scan.pc \in {"count", "batch"} /\ ~cancelProcessing
               THEN [scan EXCEPT !.admittedAtCancel = Admitted(scan)]
               ELSE scan
    /\ UNCHANGED <<isProcessing, stats, processedFilesInSession, processedImportsInSession,
                   errorFilesInSession, processedFilesCache, solo, returned, mtime>>
    /\ clockUnchanged

\* The registry request made by validateDocument for a file of the batch is
\* never answered: the resolution has no bound on its wait and never settles.
validateDocumentHangs(f) ==
    /\ AtJob(f, "validate")
    /\ scan' = [scan EXCEPT !.job[f].pc = "hung"]
    /\ UNCHANGED <<isProcessing, cancelProcessing, stats, processedFilesInSession,
                   processedImportsInSession, errorFilesInSession, processedFilesCache,
                   solo, returned, mtime>>
    /\ clockUnchanged

\* processFile for one document, up to its await of validateDocument.
processFileStart(f) ==
    /\ solo.pc = "idle"
    /\ solo' = [pc |-> "validate", file |-> f]
    /\ UNCHANGED <<isProcessing, cancelProcessing, stats, processedFilesInSession,
                   processedImportsInSession, errorFilesInSession, processedFilesCache,
                   scan, returned, mtime>>
    /\ clockUnchanged

processFileDone ==
    /\ solo.pc = "validate"
    /\ LET f == solo.file
           u == updateStatsForFile(stats, processedImportsInSession, f,
                                   validateDocumentResults(f), FALSE)
       IN  /\ IF ~isProcessing /\ f \notin processedFilesInSession
              THEN /\ processedFilesInSession' = processedFilesInSession \cup {f}
                   /\ processedImportsInSession' = u.keys
                   /\ stats' = u.stats
              ELSE UNCHANGED <<processedFilesInSession, processedImportsInSession, stats>>
           /\ processedFilesCache' =
                  [processedFilesCache EXCEPT ![f] = [has |-> TRUE, at |-> clock]]
    /\ solo' = IdleSolo
    /\ UNCHANGED <<isProcessing, cancelProcessing, errorFilesInSession, scan, returned,
                   mtime>>
    /\ clockUnchanged

processFileThrows ==
    /\ solo.pc = "validate"
    /\ errorFilesInSession' = errorFilesInSession \cup {solo.file}
    /\ stats' = pushErrorFile(stats, solo.file)
    /\ solo' = IdleSolo
    /\ UNCHANGED <<isProcessing, cancelProcessing, processedFilesInSession,
                   processedImportsInSession, processedFilesCache, scan, returned, mtime>>
    /\ clockUnchanged

FileProcessor_clearCaches ==
    /\ processedFilesCache' = [f \in FileNames |-> NoStamp]
    /\ processedFilesInSession' = {}
    /\ processedImportsInSession' = {}
    /\ errorFilesInSession' = {}
    /\ stats' = createEmptyStats
    /\ UNCHANGED <<isProcessing, cancelProcessing, scan, solo, returned, mtime>>
    /\ clockUnchanged

\* A workspace file is saved.
fileModified(f) ==
    /\ mtime[f] < clock
    /\ mtime' = [mtime EXCEPT ![f] = clock]
    /\ UNCHANGED <<isProcessing, cancelProcessing, stats, processedFilesInSession,
                   processedImportsInSession, errorFilesInSession, processedFilesCache,
                   scan, solo, returned>>
    /\ clockUnchanged

(***************************************************************************)
(* FileProcessor (src/src/fileProcessor.ts).  This class keeps the same    *)
(* kind of state under other names: processedFiles is held in              *)
(* processedFilesInSession, the lastProcessed stamps of fileMetadataCache   *)
(* in processedFilesCache, abortController.signal.aborted in                *)
(* cancelProcessing.                                                        *)
(***************************************************************************)
MaxChangedScans == 2
MaxChangedTime == 2000
ChangedLists == {SubSeq(ScanFiles, 1, 3)}

\* The extension of each workspace file.
extensionOf(filePath) == IF filePath = "f2" THEN "ts" ELSE "js"

\* filePath.match(/\.(js|jsx,ts,tsx)$/i): the alternatives of the group are
\* "js" and "jsx,ts,tsx".
shouldProcessFile(filePath) == extensionOf(filePath) \in {"js", "jsx,ts,tsx"}

resetStats ==
    [totalFiles |-> 0, processedFiles |-> 0, skippedFiles |-> 0, unchangedFiles |-> 0,
     totalImports |-> 0, validImports |-> 0, invalidImports |-> 0,
     projectImports |-> 0, frameworkImports |-> 0]

hasFileChanged(filePath) ==
    \/ ~processedFilesCache[filePath].has
    \/ processedFilesCache[filePath].at = 0
    \/ mtime[filePath] > processedFilesCache[filePath].at

Count(results, Test(_)) == Len(SelectSeq(results, Test))

IsValid(r) == r.existsOnNpm
IsInvalid(r) == ~r.existsOnNpm
IsProject(r) == r.isInProject
IsFramework(r) == r.isFramework

\* The statistics after processFile has validated a document.
countFile(st, results) ==
    [st EXCEPT !.processedFiles = @ + 1,
               !.totalImports = @ + Len(results),
               !.validImports = @ + Count(results, IsValid),
               !.invalidImports = @ + Count(results, IsInvalid),
               !.projectImports = @ + Count(results, IsProject),
               !.frameworkImports = @ + Count(results, IsFramework)]

ChangedJob(pc, validated) == [pc |-> pc, validated |-> validated]

IdleChangedScan ==
    [pc |-> "idle", onlyChanged |-> FALSE, allFiles |-> <<>>, files |-> <<>>, i |-> 0,
     job |-> [f \in FileNames |-> ChangedJob("none", FALSE)],
     processingQueue |-> {}, reports |-> <<>>, runs |-> 0, active |-> 0]

\* The head of the batch loop: the synchronous part of every file of the next
\* batch, or the return of doProcessWorkspace.
batchStart(sc, st) ==
    IF sc.i < Len(sc.files) /\ ~cancelProcessing
    THEN LET batch == Batch(sc)
             skipped == {f \in batch : f \in processedFilesInSession \/ ~shouldProcessFile(f)}
         IN  [scan |-> [sc EXCEPT !.job = [f \in FileNames |->
                                     IF f \notin batch THEN sc.job[f]
                                     ELSE IF f \in skipped THEN ChangedJob("done", FALSE)
                                     ELSE ChangedJob("open", FALSE)],
                                  !.pc = IF skipped = batch THEN "sleep" ELSE "batch",
                                  !.reports = IF skipped = batch
                                              THEN Append(@, sc.i + Cardinality(batch))
                                              ELSE @],
              stats |-> [st EXCEPT !.skippedFiles = @ + Cardinality(skipped)]]
    ELSE [scan |-> [sc EXCEPT !.pc = "returning"], stats |-> st]

\* The continuation of await Promise.all: the progress report, then the
\* 10 ms pause.
batchSettled(sc) ==
    IF \E f \in Batch(sc) : sc.job[f].pc # "done" THEN sc
    ELSE [sc EXCEPT !.pc = "sleep", !.reports = Append(@, sc.i + Cardinality(Batch(sc)))]

changedUnchanged == UNCHANGED <<processedImportsInSession, errorFilesInSession, solo>>

processWorkspace_onlyChanged(onlyChanged) ==
    /\ IF isProcessing
       THEN /\ returned' = [by |-> "busy", stats |-> stats]
            /\ UNCHANGED <<isProcessing, cancelProcessing, stats, scan>>
       ELSE /\ isProcessing' = TRUE
            /\ cancelProcessing' = FALSE
            /\ stats' = resetStats
            /\ scan' = [IdleChangedScan EXCEPT !.pc = "find", !.onlyChanged = onlyChanged,
                                               !.runs = scan.runs + 1,
                                               !.active = scan.active + 1]
            /\ UNCHANGED returned
    /\ UNCHANGED <<processedFilesInSession, processedFilesCache, mtime>>
    /\ changedUnchanged
    /\ clockUnchanged

\* findFiles resolves: the candidates are filtered and the first batch starts.
findFilesDone(allFiles) ==
    /\ scan.pc = "find"
    /\ LET found == SubSeq(allFiles, 1, Min(Len(allFiles), maxFiles))
           filesToProcess == IF scan.onlyChanged THEN SelectSeq(found, hasFileChanged)
                             ELSE found
           st == [stats EXCEPT !.totalFiles = Len(allFiles),
                               !.unchangedFiles = Len(allFiles) - Len(filesToProcess)]
           r == batchStart([scan EXCEPT !.allFiles = allFiles, !.files = filesToProcess], st)
       IN  scan' = r.scan /\ stats' = r.stats
    /\ UNCHANGED <<isProcessing, cancelProcessing, processedFilesInSession,
                   processedFilesCache, returned, mtime>>
    /\ changedUnchanged
    /\ clockUnchanged

\* openTextDocument resolves and processFile runs up to validateDocument.
openDone(f) ==
    /\ scan.pc = "batch" /\ scan.job[f].pc = "open"
    /\ IF f \in scan.processingQueue \/ ~shouldProcessFile(f)
       THEN /\ scan' = batchSettled([scan EXCEPT !.job[f].pc = "done"])
            /\ UNCHANGED stats
       ELSE IF ~hasFileChanged(f)
       THEN /\ scan' = batchSettled([scan EXCEPT !.job[f].pc = "done"])
            /\ stats' = [stats EXCEPT !.unchangedFiles = @ + 1]
       ELSE /\ scan' = [scan EXCEPT !.job[f].pc = "validate",
                                    !.processingQueue = @ \cup {f}]
            /\ UNCHANGED stats
    /\ UNCHANGED <<isProcessing, cancelProcessing, processedFilesInSession,
                   processedFilesCache, returned, mtime>>
    /\ changedUnchanged
    /\ clockUnchanged

\* openTextDocument rejects.
openThrows(f) ==
    /\ scan.pc = "batch" /\ scan.job[f].pc = "open"
    /\ scan' = batchSettled([scan EXCEPT !.job[f].pc = "done"])
    /\ stats' = [stats EXCEPT !.skippedFiles = @ + 1]
    /\ UNCHANGED <<isProcessing, cancelProcessing, processedFilesInSession,
                   processedFilesCache, returned, mtime>>
    /\ changedUnchanged
    /\ clockUnchanged

\* validateDocument settles inside processFile: with the results of the file,
\* or with an error, which processFile replaces by no results.
validateSettled(f, results) ==
    /\ scan.pc = "batch" /\ scan.job[f].pc = "validate"
    /\ stats' = countFile(stats, results)
    /\ processedFilesCache' = [processedFilesCache EXCEPT ![f] = [has |-> TRUE, at |-> clock]]
    /\ processedFilesInSession' = processedFilesInSession \cup {f}
    /\ scan' = batchSettled([scan EXCEPT !.job[f] = ChangedJob("done", TRUE),
                                         !.processingQueue = @ \ {f}])
    /\ UNCHANGED <<isProcessing, cancelProcessing, returned, mtime>>
    /\ changedUnchanged
    /\ clockUnchanged

\* The 10 ms pause after a batch is over.
sleepDone ==
    /\ scan.pc = "sleep"
    /\ LET r == batchStart([scan EXCEPT !.pc = "batch", !.i = @ + batchSize], stats)
       IN  scan' = r.scan /\ stats' = r.stats
    /\ UNCHANGED <<isProcessing, cancelProcessing, processedFilesInSession,
                   processedFilesCache, returned, mtime>>
    /\ changedUnchanged
    /\ clockUnchanged

\* The finally block of processWorkspace, and its return.
processWorkspace_onlyChangedReturns ==
    /\ scan.pc = "returning"
    /\ isProcessing' = FALSE
    /\ scan' = [scan EXCEPT !.pc = "idle", !.active = @ - 1]
    /\ returned' = [by |-> "scan", stats |-> stats]
    /\ UNCHANGED <<cancelProcessing, stats, processedFilesInSession, processedFilesCache,
                   mtime>>
    /\ changedUnchanged
    /\ clockUnchanged

\* cancelProcessing(), or the cancel button of the progress notification.
abort ==
    /\ isProcessing
    /\ cancelProcessing' = TRUE
    /\ UNCHANGED <<isProcessing, stats, processedFilesInSession, processedFilesCache,
                   scan, returned, mtime>>
    /\ changedUnchanged
    /\ clockUnchanged

(***************************************************************************)
(* Unused-dependency analysis.  Two implementations exist:                 *)
(* FileProcessor.findUnusedDependencies (src/unnamed/part_011) and         *)
(* DependencyManager._analyzeDependencies (src/src/dependencyManager.ts).  *)
(* A package name is a sequence of characters, so that startsWith and      *)
(* includes are computed as the code computes them.                        *)
(***************************************************************************)
LeftPad == <<"l", "e", "f", "t", "-", "p", "a", "d">>
React == <<"r", "e", "a", "c", "t">>
Vitest == <<"v", "i", "t", "e", "s", "t">>
TypesNode == <<"@", "t", "y", "p", "e", "s", "/", "n", "o", "d", "e">>

\* The package names a manifest of the model may declare.
DepNames == {LeftPad, React, Vitest, TypesNode}

\* The package names a source file of the model may import.
ImportNames == {LeftPad, React}

\* The source files of the workspace.
SourceFiles == {"a.ts", "b.ts"}

Sections == <<"dependencies", "devDependencies", "peerDependencies",
              "optionalDependencies">>

\* The version string a section of the manifest declares for a name.
DeclaredVersion(type, name) ==
    CASE type = "dependencies" /\ name = React -> "18.0.0"
      [] type = "dependencies" -> "1.0.0"
      [] type = "devDependencies" -> "2.0.0"
      [] type = "peerDependencies" -> ">=17"
      [] OTHER -> "3.0.0"

\* A manifest section declaring the names of S.
Section(type, S) == [n \in S |-> DeclaredVersion(type, n)]

\* The sections a name may be declared in.
Placements == {{}, {"dependencies"}, {"devDependencies"}, {"peerDependencies"},
               {"optionalDependencies"}, {"dependencies", "devDependencies"},
               {"devDependencies", "peerDependencies"}}

\* The manifest in which each name n is declared in the sections place[n].
PackageJsonOf(place) ==
    [type \in {Sections[i] : i \in DOMAIN Sections} |->
        Section(type, {n \in DOMAIN place : type \in place[n]})]

\* No call has returned yet.
NoResult == [done |-> FALSE, value |-> <<>>]

Returns(value) == [done |-> TRUE, value |-> value]

\* No findUnusedDependencies is running.
IdleRescan == [pc |-> "idle", files |-> <<>>, allImports |-> <<>>]

DependencyInit ==
    /\ packageJson = PackageJsonOf([n \in DepNames |-> {}])
    /\ workspaceImports = [f \in SourceFiles |-> {}]
    /\ unusedDependencies = NoResult
    /\ analysed = NoResult
    /\ rescan = IdleRescan

\* String.prototype.startsWith
startsWith(s, prefix) ==
    /\ Len(prefix) <= Len(s)
    /\ SubSeq(s, 1, Len(prefix)) = prefix

\* String.prototype.includes
includes(s, part) ==
    \E k \in 1..(Len(s) - Len(part) + 1) : SubSeq(s, k, k + Len(part) - 1) = part

commonDevTools == <<
    <<"t", "y", "p", "e", "s", "c", "r", "i", "p", "t">>,
    <<"e", "s", "l", "i", "n", "t">>,
    <<"p", "r", "e", "t", "t", "i", "e", "r">>,
    <<"j", "e", "s", "t">>,
    <<"m", "o", "c", "h", "a">>,
    <<"c", "h", "a", "i">>,
    <<"w", "e", "b", "p", "a", "c", "k">>,
    <<"b", "a", "b", "e", "l">>,
    <<"r", "o", "l", "l", "u", "p">>,
    <<"v", "i", "t", "e">>,
    <<"e", "s", "b", "u", "i", "l", "d">>,
    <<"p", "o", "s", "t", "c", "s", "s">>,
    <<"t", "a", "i", "l", "w", "i", "n", "d", "c", "s", "s">>,
    <<"a", "u", "t", "o", "p", "r", "e", "f", "i", "x", "e", "r">>,
    <<"n", "o", "d", "e", "m", "o", "n">>,
    <<"t", "s", "-", "n", "o", "d", "e">>,
    <<"h", "u", "s", "k", "y">>,
    <<"l", "i", "n", "t", "-", "s", "t", "a", "g", "e", "d">>,
    <<"r", "i", "m", "r", "a", "f">>,
    <<"c", "o", "n", "c", "u", "r", "r", "e", "n", "t", "l", "y">>,
    <<"c", "r", "o", "s", "s", "-", "e", "n", "v">>,
    <<"d", "o", "t", "e", "n", "v">>,
    <<"c", "l", "s", "x">>,
    <<"c", "l", "a", "s", "s", "n", "a", "m", "e", "s">>>>

shouldSkipDependency(name) ==
    \/ startsWith(name, <<"@", "t", "y", "p", "e", "s", "/">>)
    \/ \E i \in DOMAIN commonDevTools : includes(name, commonDevTools[i])

\* { ...a, ...b }
Spread(a, b) ==
    [n \in DOMAIN a \cup DOMAIN b |-> IF n \in DOMAIN b THEN b[n] ELSE a[n]]

\* The importNames of every file that has any: ImportValidator.
\* getAllImportsInWorkspace flattened, FileProcessor.getAllImports.
getAllImports(imports) == UNION {imports[f] : f \in DOMAIN imports}

\* FileProcessor.findUnusedDependencies over one manifest.
findUnusedDependenciesOf(pj, imports) ==
    LET dependencies == Spread(pj.dependencies, pj.devDependencies)
        usedPackages == getAllImports(imports)
        unused == {n \in DOMAIN dependencies :
                       ~shouldSkipDependency(n) /\ n \notin usedPackages}
    IN  [n \in unused |-> dependencies[n]]

\* DependencyManager._processDependencies: the first section that declares a
\* name gives the Dependency its version and type.
_processDependencies(deps, pj, type) ==
    [n \in DOMAIN deps \cup DOMAIN pj[type] |->
        IF n \in DOMAIN deps THEN deps[n]
        ELSE [name |-> n, version |-> pj[type][n], type |-> type]]

RECURSIVE _loadSections(_, _, _)
_loadSections(deps, pj, i) ==
    IF i > Len(Sections) THEN deps
    ELSE _loadSections(_processDependencies(deps, pj, Sections[i]), pj, i + 1)

\* DependencyManager._loadPackageJsonFiles over one manifest.
_loadPackageJsonFiles(pj) == _loadSections(<<>>, pj, 1)

\* DependencyManager._analyzeDependencies on a manager that has not loaded yet;
\* the returned array is modelled as the set of its elements.
_analyzeDependenciesOf(pj, imports) ==
    LET _dependencies == _loadPackageJsonFiles(pj)
        allImports == getAllImports(imports)
    IN  {_dependencies[n] : n \in {m \in DOMAIN _dependencies :
             /\ m \notin allImports
             /\ _dependencies[m].type # "peerDependencies"}}

dependencyUnchanged ==
    UNCHANGED <<clock, validatorVars, fileProcessorVars, classifierVars,
                   packageJsonFiles, packageJson, workspaceImports,
                rescan>>

findUnusedDependencies ==
    /\ unusedDependencies' = Returns(findUnusedDependenciesOf(packageJson, workspaceImports))
    /\ UNCHANGED analysed
    /\ dependencyUnchanged

_analyzeDependencies ==
    /\ analysed' = Returns(_analyzeDependenciesOf(packageJson, workspaceImports))
    /\ UNCHANGED unusedDependencies
    /\ dependencyUnchanged

(***************************************************************************)
(* FileProcessor.findUnusedDependencies with the calls it makes:           *)
(* ImportValidator.getAllImportsInWorkspace lists the source files and     *)
(* awaits validateDocument for one file after the other.                   *)
(***************************************************************************)
MaxRescanTime == 1000

\* The caller slot of getAllImportsInWorkspace.
Rescanner == 2

\* What findFiles("**/*.{js,jsx,ts,tsx}") returns.
RescanFiles == <<"a.ts", "b.ts">>

\* The texts a source file may hold when it is opened.
RescanTexts == {<<>>, <<"axios">>}

Axios == <<"a", "x", "i", "o", "s">>

\* The characters of a package name of the validator model.
NameOf(importName) == CASE importName = "axios" -> Axios

\* A package.json that declares the imported package and another one.
RescanPackageJson ==
    PackageJsonOf([n \in DepNames \cup {Axios} |->
                      IF n \in {Axios, LeftPad} THEN {"dependencies"} ELSE {}])

rescanUnchanged ==
    UNCHANGED <<packageJson, workspaceImports, analysed>>

\* findUnusedDependencies up to the findFiles of getAllImportsInWorkspace: the
\* manifest has been read.
findUnusedDependenciesCalled ==
    /\ rescan.pc = "idle"
    /\ rescan' = [pc |-> "files", files |-> RescanFiles, allImports |-> <<>>]
    /\ UNCHANGED <<clock, validatorVars, fileProcessorVars, classifierVars,
                   packageJsonFiles, unusedDependencies>>
    /\ rescanUnchanged

\* The loop of getAllImportsInWorkspace opens the next file and calls
\* validateDocument.
getAllImportsInWorkspaceValidate(text) ==
    /\ rescan.pc = "files"
    /\ rescan.files # <<>>
    /\ validateDocument(Rescanner, Head(rescan.files), text)
    /\ rescan' = [rescan EXCEPT !.pc = "await"]
    /\ UNCHANGED unusedDependencies
    /\ rescanUnchanged

\* validateDocument returned: a non-empty vector is kept under the file's path;
\* after the last file findUnusedDependencies computes its map and returns.
getAllImportsInWorkspaceReturned ==
    /\ rescan.pc = "await"
    /\ call[Rescanner].pc = "returned"
    /\ LET file == Head(rescan.files)
           results == call[Rescanner].results
           names == {NameOf(results[i].importName) : i \in DOMAIN results}
           allImports ==
               IF Len(results) > 0
               THEN [f \in DOMAIN rescan.allImports \cup {file} |->
                        IF f = file THEN names ELSE rescan.allImports[f]]
               ELSE rescan.allImports
           rest == Tail(rescan.files)
       IN  IF rest = <<>>
           THEN /\ rescan' = IdleRescan
                /\ unusedDependencies' =
                      Returns(findUnusedDependenciesOf(packageJson, allImports))
           ELSE /\ rescan' = [pc |-> "files", files |-> rest, allImports |-> allImports]
                /\ UNCHANGED unusedDependencies
    /\ UNCHANGED <<clock, validatorVars, fileProcessorVars, classifierVars,
                   packageJsonFiles>>
    /\ rescanUnchanged

(***************************************************************************)
(* The specifier classifier of ImportValidator: _isLocalImport under       *)
(* memoize, and _extractPackageName.  A specifier is a sequence of         *)
(* characters.                                                             *)
(***************************************************************************)
COMMON_PATH_ALIASES == <<
    <<"~">>,
    <<"s", "r", "c", "/">>,
    <<"c", "o", "m", "p", "o", "n", "e", "n", "t", "s", "/">>,
    <<"p", "a", "g", "e", "s", "/">>,
    <<"u", "t", "i", "l", "s", "/">>,
    <<"h", "o", "o", "k", "s", "/">>,
    <<"l", "i", "b", "/">>,
    <<"a", "s", "s", "e", "t", "s", "/">>,
    <<"s", "t", "y", "l", "e", "s", "/">>,
    <<"c", "o", "n", "f", "i", "g", "/">>,
    <<"c", "o", "n", "s", "t", "a", "n", "t", "s", "/">>>>

\* The specifiers the import statements of the model name.
Specifiers == {
    <<".", "/", "f", "o", "o">>,
    <<"~", "/", "x">>,
    <<"@", "s", "c", "o", "p", "e", "/", "p", "k", "g">>,
    <<"l", "o", "d", "a", "s", "h", "/", "g", "e", "t">>,
    <<"@", "/", "x">>,
    <<"@", "a", "p", "p", "/", "x">>,
    <<"@", "b", "a", "b", "e", "l", "/", "c", "o", "r", "e", "/", "l", "i", "b", "/", "x">>,
    <<"a", "x", "i", "o", "s", "/", "d", "i", "s", "t", "/", "n", "o", "d", "e">>,
    <<"@", "s", "c", "o", "p", "e">>}

\* The values of the setting "pathAliases": its contributed default, no alias,
\* and an alias that looks like a scope.
DefaultAliases == <<<<"@", "/">>, <<"~">>>>
AliasConfigs == {DefaultAliases, <<>>, <<<<"@", "a", "p", "p">>>>}

\* [a-zA-Z0-9_-]
ScopeChars ==
    {"a", "b", "c", "d", "e", "f", "g", "h", "i", "j", "k", "l", "m", "n",
     "o", "p", "q", "r", "s", "t", "u", "v", "w", "x", "y", "z", "A", "B",
     "C", "D", "E", "F", "G", "H", "I", "J", "K", "L", "M", "N", "O", "P",
     "Q", "R", "S", "T", "U", "V", "W", "X", "Y", "Z", "0", "1", "2", "3",
     "4", "5", "6", "7", "8", "9", "_", "-"}

\* importPath.match(/^@[a-zA-Z0-9_-]+/)
matchesScope(importPath) ==
    /\ Len(importPath) >= 2
    /\ importPath[1] = "@"
    /\ importPath[2] \in ScopeChars

someStartsWith(importPath, aliases) ==
    \E i \in DOMAIN aliases : startsWith(importPath, aliases[i])

\* The function handed to memoize, customAliases being the setting it reads.
_isLocalImportBody(importPath, customAliases) ==
    IF startsWith(importPath, <<".">>) \/ startsWith(importPath, <<"/">>) THEN TRUE
    ELSE IF matchesScope(importPath)
    THEN ~(includes(importPath, <<"/">>) /\ ~someStartsWith(importPath, customAliases))
    ELSE someStartsWith(importPath, COMMON_PATH_ALIASES \o customAliases)

\* memoize: the value returned for key, func(key) being value.
memoized(cache, key, value) == IF key \in DOMAIN cache THEN cache[key] ELSE value

\* memoize: the cache after that call.
remembered(cache, key, value) ==
    IF key \in DOMAIN cache THEN cache
    ELSE [k \in DOMAIN cache \cup {key} |-> IF k = key THEN value ELSE cache[k]]

_isLocalImport(cache, importPath) ==
    memoized(cache, importPath, _isLocalImportBody(importPath, pathAliases))

\* String.prototype.split("/")
RECURSIVE split(_)
split(s) ==
    IF ~includes(s, <<"/">>) THEN <<s>>
    ELSE LET k == CHOOSE j \in 1..Len(s) :
                     s[j] = "/" /\ \A h \in 1..(j - 1) : s[h] # "/"
         IN  <<SubSeq(s, 1, k - 1)>> \o split(SubSeq(s, k + 1, Len(s)))

\* Mutant: the special case of "@/" is missing.
_extractPackageName_NoAtSlash(importPath) ==
    LET parts == split(importPath)
    IN  IF startsWith(importPath, <<"@">>) /\ Len(parts) >= 2
        THEN parts[1] \o <<"/">> \o parts[2]
        ELSE parts[1]

\* Its memoize wrapper is left out: the function reads nothing but its argument.
_extractPackageName(importPath) ==
    LET parts == split(importPath)
    IN  IF /\ startsWith(importPath, <<"@">>)
           /\ ~startsWith(importPath, <<"@", "/">>)
           /\ Len(parts) >= 2
        THEN parts[1] \o <<"/">> \o parts[2]
        ELSE parts[1]

\* _extractImportsFromDocument has not been called yet.
NotParsed == [opened |-> FALSE, called |-> FALSE, text |-> <<>>, threw |-> FALSE,
              imports |-> <<>>]

\* No import statement has been met yet.
NoClassified == [called |-> FALSE, importPath |-> <<>>, aliases |-> <<>>, cached |-> FALSE,
                 isLocal |-> FALSE, importName |-> <<>>, inResults |-> FALSE]

ClassifierInit ==
    /\ pathAliases = DefaultAliases
    /\ _isLocalImportCache = <<>>
    /\ classified = NoClassified
    /\ parsed = NotParsed

classifierUnchanged ==
    UNCHANGED <<clock, validatorVars, fileProcessorVars, dependencyVars, packageJsonFiles>>

\* The user edits the setting.
configurationChanged(aliases) ==
    /\ aliases # pathAliases
    /\ pathAliases' = aliases
    /\ UNCHANGED <<_isLocalImportCache, classified, parsed>>
    /\ classifierUnchanged

\* One import statement naming importPath on its way through an extractor
\* (_isLocalImport, _extractPackageName, imports.push) and through
\* _validateImports, which asks _isLocalImport again about the package name.
importStatement(importPath) ==
    LET isLocal == _isLocalImport(_isLocalImportCache, importPath)
        cache1 == remembered(_isLocalImportCache, importPath, isLocal)
        packageName == _extractPackageName(importPath)
        skipped == _isLocalImport(cache1, packageName)
        cache2 == remembered(cache1, packageName, skipped)
    IN  /\ classified' =
              [called |-> TRUE, importPath |-> importPath, aliases |-> pathAliases,
               cached |-> importPath \in DOMAIN _isLocalImportCache,
               isLocal |-> isLocal,
               importName |-> IF isLocal THEN <<>> ELSE packageName,
               inResults |-> ~isLocal /\ ~skipped]
        /\ _isLocalImportCache' = IF isLocal THEN cache1 ELSE cache2
        /\ UNCHANGED <<pathAliases, parsed>>
        /\ classifierUnchanged

(***************************************************************************)
(* _extractImportsFromDocument over the text of a document.  A text is the *)
(* sequence of its statements, a statement being one of the forms below    *)
(* with the specifier it names; a regular expression is the set of forms   *)
(* its pattern matches, and exec walks the text in its order.              *)
(***************************************************************************)
MaxStatements == 2

\* import x from "p"; import type { X } from "p"; import { type X } from "p";
\* const x = require("p"); require("p"); and text that is no statement.
StatementForms ==
    {"import", "importType", "inlineType", "declRequire", "bareRequire", "syntaxError"}

Statement(form, importPath) == [form |-> form, importPath |-> importPath]

ParsedSpecifiers ==
    {<<"l", "o", "d", "a", "s", "h", "/", "g", "e", "t">>,
     <<".", "/", "f", "o", "o">>,
     <<"@", "s", "c", "o", "p", "e", "/", "p", "k", "g">>}

Statements ==
    {Statement(f, p) : f \in StatementForms \ {"syntaxError"}, p \in ParsedSpecifiers}
        \cup {Statement("syntaxError", <<>>)}

DocumentTexts ==
    UNION {[1..n -> Statements] : n \in 0..MaxStatements}

\* EImportType
ES6 == "import"
COMMONJS == "require"
TYPE == "type-import"

\* esprima is a JavaScript parser: the TypeScript import forms and malformed
\* text make parseModule throw, with and without the jsx option.
NotJavaScript == {"importType", "inlineType", "syntaxError"}

parseModule(text, jsx) ==
    [threw |-> \E k \in DOMAIN text : text[k].form \in NotJavaScript, body |-> text]

\* /import\s+(?:(?:\{[^}]*\}|\*\s+as\s+\w+|\w+)(?:\s*,\s*(...))*\s+from\s+)?['"]([^'"]+)['"]/g
\* A braced list may hold "type X", so the inline type import matches too;
\* "import type {" does not, since "type" must be followed by "from" or ",".
importRegex == {"import", "inlineType"}

\* /import\s+type\s+(?:\{[^}]*\}|\*\s+as\s+\w+)\s+from\s+['"]([^'"]+)['"]/g
typeImportRegex == {"importType"}

\* /import\s+\{\s*(?:[^{}]*,\s*)?type\s+[^{}]*\}\s+from\s+['"]([^'"]+)['"]/g
inlineTypeImportRegex == {"inlineType"}

\* Both require patterns have "$$" where the parentheses of the call belong:
\* "$" holds at the end of the input only, and the patterns want a quote and
\* the specifier after it.
EndOfInputBeforeQuote == FALSE

\* /(?:const|let|var)\s+(?:\w+|\{\s*[^}]+\s*\})\s*=\s*require\s*$$\s*['"]([^'"]+)['"]\s*$$/g
requireRegex == {f \in {"declRequire"} : EndOfInputBeforeQuote}

\* /(?<![\w$])require\s*$$\s*['"]([^'"]+)['"]\s*$$/g
dynamicRequireRegex == {f \in {"declRequire", "bareRequire"} : EndOfInputBeforeQuote}

\* The state an extractor works on: the memo of _isLocalImport, the imports
\* array, and whether an exception is on its way up.
Extraction(cache, imports, threw) == [cache |-> cache, imports |-> imports, threw |-> threw]

\* The body the extractors share: the statement at k named importPath.
pushImport(st, k, importPath, importType) ==
    LET isLocal == _isLocalImport(st.cache, importPath)
        cache == remembered(st.cache, importPath, isLocal)
    IN  IF isLocal THEN [st EXCEPT !.cache = cache]
        ELSE [st EXCEPT !.cache = cache,
                        !.imports = Append(@, [importName |-> _extractPackageName(importPath),
                                               range |-> k, importType |-> importType])]

\* while ((match = regex.exec(text)) !== null), from statement k on.
RECURSIVE execLoop(_, _, _, _, _)
execLoop(regex, importType, text, k, st) ==
    IF k > Len(text) THEN st
    ELSE execLoop(regex, importType, text, k + 1,
                  IF text[k].form \in regex
                  THEN pushImport(st, k, text[k].importPath, importType)
                  ELSE st)

\* Its try block cannot leave by an exception the catch would not take.
_extractImportsWithRegex(text, st) == execLoop(importRegex, ES6, text, 1, st)

\* Mutant: the catch logs and gives up.
_extractES6Imports_NoFallback(text, st) ==
    LET first == parseModule(text, TRUE)
        ast == IF first.threw THEN parseModule(text, FALSE) ELSE first
    IN  IF ast.threw THEN st
        ELSE execLoop({"import"}, ES6, ast.body, 1, st)

\* The ImportDeclaration nodes of the tree, or the regex scan of the text when
\* both parses threw.
_extractES6Imports(text, st) ==
    LET first == parseModule(text, TRUE)
        ast == IF first.threw THEN parseModule(text, FALSE) ELSE first
    IN  IF ast.threw THEN _extractImportsWithRegex(text, st)
        ELSE execLoop({"import"}, ES6, ast.body, 1, st)

_processTypeImportRegex(regex, text, st) == execLoop(regex, TYPE, text, 1, st)

_extractTypeImports(text, st) ==
    _processTypeImportRegex(inlineTypeImportRegex, text,
                            _processTypeImportRegex(typeImportRegex, text, st))

_processRequireRegex(regex, text, st) == execLoop(regex, COMMONJS, text, 1, st)

_extractCommonJSRequires(text, st) ==
    _processRequireRegex(dynamicRequireRegex, text,
                         _processRequireRegex(requireRegex, text, st))

\* The three extractors in turn; an exception that left one of them would
\* skip the rest and be logged by the catch.
extractImports(text, cache) ==
    LET s1 == _extractES6Imports(text, Extraction(cache, <<>>, FALSE))
        s2 == IF s1.threw THEN s1 ELSE _extractTypeImports(text, s1)
        s3 == IF s2.threw THEN s2 ELSE _extractCommonJSRequires(text, s2)
    IN  s3

\* A document with this text is handed to the validator.
openTextDocument(text) ==
    /\ ~parsed.opened
    /\ parsed' = [NotParsed EXCEPT !.opened = TRUE, !.text = text]
    /\ UNCHANGED <<pathAliases, _isLocalImportCache, classified>>
    /\ classifierUnchanged

\* _extractImportsFromDocument(document), text being document.getText().
extractImportsFromDocument(text) ==
    LET st == extractImports(text, _isLocalImportCache)
    IN  /\ parsed' = [opened |-> TRUE, called |-> TRUE, text |-> text, threw |-> FALSE,
                      imports |-> st.imports]
        /\ _isLocalImportCache' = st.cache
        /\ UNCHANGED <<pathAliases, classified>>
        /\ classifierUnchanged

(***************************************************************************)
(* PackageInfoProvider.loadProjectPackages over the package.json files of  *)
(* the workspace, each with its four dependency sections.                  *)
(***************************************************************************)
MaxIndexChanges == 2

\* The names the manifests of the model declare.
IndexNames == {"left-pad", "react"}

NoSection == <<>>

\* A file whose text JSON.parse rejects: safeJsonParse returns {}.
Malformed ==
    [wellFormed |-> FALSE, dependencies |-> NoSection, devDependencies |-> NoSection,
     peerDependencies |-> NoSection, optionalDependencies |-> NoSection]

WellFormed(dependencies, devDependencies, peerDependencies, optionalDependencies) ==
    [wellFormed |-> TRUE, dependencies |-> dependencies,
     devDependencies |-> devDependencies, peerDependencies |-> peerDependencies,
     optionalDependencies |-> optionalDependencies]

Declares(name, version) == [n \in {name} |-> version]

\* The manifests of the model: the example of the unused-dependency report, a
\* manifest that declares one name in two sections, a malformed one, and one
\* with an optional dependency.
Manifests ==
    {WellFormed([n \in IndexNames |-> IF n = "react" THEN "18.0.0" ELSE "1.0.0"],
                NoSection, NoSection, NoSection),
     WellFormed(NoSection, Declares("react", "17.0.0"), Declares("react", ">=16"),
                NoSection),
     Malformed,
     WellFormed(NoSection, NoSection, NoSection, Declares("left-pad", "2.0.0"))}

\* What findFiles("**/package.json") may return, in its order.
ManifestLists ==
    {<<>>} \cup {<<m>> : m \in Manifests}
           \cup {<<m1, m2>> : m1 \in Manifests, m2 \in Manifests}

\* this.projectPackages.clear()
NoProjectPackages == [n \in IndexNames |-> ""]

\* Mutant: a name that is in the map already keeps its version.
addDependenciesToMap_KeepFirst(map, dependencies) ==
    [n \in IndexNames |->
        IF n \in DOMAIN dependencies /\ map[n] = "" THEN dependencies[n] ELSE map[n]]

addDependenciesToMap(map, dependencies) ==
    [n \in IndexNames |-> IF n \in DOMAIN dependencies THEN dependencies[n] ELSE map[n]]

\* The body of the forEach callback for one file.
loadPackageJson(map, pj) ==
    addDependenciesToMap(
      addDependenciesToMap(
        addDependenciesToMap(
          addDependenciesToMap(map, pj.dependencies),
          pj.devDependencies),
        pj.peerDependencies),
      pj.optionalDependencies)

RECURSIVE loadPackageJsonFiles(_, _, _)
loadPackageJsonFiles(map, files, i) ==
    IF i > Len(files) THEN map
    ELSE loadPackageJsonFiles(loadPackageJson(map, files[i]), files, i + 1)

indexUnchanged ==
    UNCHANGED <<clock, cacheTimeout, registry, manifest, _documentImportsCache,
                _importExistenceCache, packageInfoCache, call, task, fileProcessorVars,
                dependencyVars, classifierVars>>

\* Mutant: the map is patched, not rebuilt.
loadProjectPackages_NoClear(files) ==
    /\ manifestChanges < MaxIndexChanges
    /\ packageJsonFiles' = files
    /\ manifestChanges' = manifestChanges + 1
    /\ projectPackages' = projectPackages
    /\ reloads' = reloads + 1
    /\ indexUnchanged

\* A package.json is created, changed or deleted, or the watcher fires without
\* a change of content: loadProjectPackages clears the map and calls findFiles.
loadProjectPackages(files) ==
    /\ manifestChanges < MaxIndexChanges
    /\ packageJsonFiles' = files
    /\ manifestChanges' = manifestChanges + 1
    /\ projectPackages' = NoProjectPackages
    /\ reloads' = reloads + 1
    /\ indexUnchanged

\* findFiles resolved: every file is read and parsed, its sections are added.
findFilesResolved ==
    /\ reloads > 0
    /\ reloads' = reloads - 1
    /\ projectPackages' = loadPackageJsonFiles(projectPackages, packageJsonFiles, 1)
    /\ UNCHANGED <<manifestChanges, packageJsonFiles>>
    /\ indexUnchanged

Init ==
    /\ clock = 0
    /\ cacheTimeout \in 1..MaxCacheTimeout
    /\ registry \in [Pkgs -> BOOLEAN]
    /\ manifest \in [Pkgs -> Versions \cup {""}]
    /\ projectPackages = [p \in Pkgs |-> ""]
    /\ reloads = 1
    /\ manifestChanges = 0
    /\ _documentImportsCache = [d \in Docs |-> NoDocEntry]
    /\ _importExistenceCache = [p \in Pkgs |-> NoEntry]
    /\ packageInfoCache = [p \in Pkgs |-> NoInfoEntry]
    /\ call = [c \in Callers |-> IdleCall]
    /\ task = [c \in Callers |-> <<>>]
    /\ FileProcessorInit
    /\ DependencyInit
    /\ ClassifierInit
    /\ packageJsonFiles = <<>>

\* The outcomes of the requests in flight and the retry delays, for the callers C.
Registry(C) ==
    \/ \E c \in C : \E i \in DOMAIN task[c] : Respond404(c, i)
    \/ \E c \in C : \E i \in DOMAIN task[c] : Respond200(c, i)
    \/ \E c \in C : \E i \in DOMAIN task[c] : RespondNotOk(c, i)
    \/ \E c \in C : \E i \in DOMAIN task[c] : \E e \in FetchErrors : FetchThrows(c, i, e)
    \/ \E c \in C : \E i \in DOMAIN task[c] : DelayFire(c, i)
    \/ \E c \in C : \E i \in DOMAIN task[c] :
          \E o \in {"ok", "notOk", "throws"} : DownloadsRespond(c, i, o)

(***************************************************************************)
(* Spec: one caller validating one document, the caches and the project    *)
(* index over a horizon of MaxTime.  No 10 s timer can fire within it.     *)
(***************************************************************************)
Next ==
    \/ \E d \in OneDoc, text \in Texts : ValidateDocument(1, d, text)
    \/ Registry(Solo)
    \/ \E s \in ClockSteps : Tick(s, MaxTime)
    \/ clearCaches
    \/ \E p \in Pkgs, v \in Versions \cup {""} : ManifestChange(p, v)
    \/ loadProjectPackagesDone

Spec == Init /\ [][Next]_vars

(***************************************************************************)
(* SpecRetry: one caller whose calls (of two documents importing the same  *)
(* package) are made at time 0, followed over a horizon of MaxRetryTime,   *)
(* with the abort timer of a request and the validator's                   *)
(* PROCESSING_TIMEOUT timer.                                               *)
(***************************************************************************)
NextRetry ==
    \/ \E d \in Docs, text \in Texts : clock = 0 /\ ValidateDocument(1, d, text)
    \/ Registry(Solo)
    \/ clearCaches
    \/ \E i \in DOMAIN task[1] : AbortFire(1, i)
    \/ \E i \in DOMAIN task[1] : RaceFire(1, i)
    \/ \E s \in ClockSteps : Tick(s, MaxRetryTime)
    \/ loadProjectPackagesDone

SpecRetry == Init /\ [][NextRetry]_vars

(***************************************************************************)
(* SpecConc: two callers (one document) against a registry that answers    *)
(* every request with its state, the project index loaded, over a horizon  *)
(* of MaxConcTime.                                                         *)
(***************************************************************************)
InitConc ==
    /\ clock = 0
    /\ cacheTimeout \in 1..MaxCacheTimeout
    /\ registry \in [Pkgs -> BOOLEAN]
    /\ manifest \in [Pkgs -> Versions \cup {""}]
    /\ projectPackages = manifest
    /\ reloads = 0
    /\ manifestChanges = 0
    /\ _documentImportsCache = [d \in Docs |-> NoDocEntry]
    /\ _importExistenceCache = [p \in Pkgs |-> NoEntry]
    /\ packageInfoCache = [p \in Pkgs |-> NoInfoEntry]
    /\ call = [c \in Callers |-> IdleCall]
    /\ task = [c \in Callers |-> <<>>]
    /\ FileProcessorInit
    /\ DependencyInit
    /\ ClassifierInit
    /\ packageJsonFiles = <<>>

NextConc ==
    \/ \E c \in Callers, d \in OneDoc, text \in Texts : ValidateDocument(c, d, text)
    \/ \E c \in Callers : \E i \in DOMAIN task[c] : Respond404(c, i)
    \/ \E c \in Callers : \E i \in DOMAIN task[c] : Respond200(c, i)
    \/ \E c \in Callers : \E i \in DOMAIN task[c] :
          \E o \in {"ok", "notOk", "throws"} : DownloadsRespond(c, i, o)
    \/ \E s \in ClockSteps : Tick(s, MaxConcTime)
    \/ clearCaches

SpecConc == InitConc /\ [][NextConc]_vars

(***************************************************************************)
(* SpecDoc: one call, made at time 0, of a document that imports the same  *)
(* package in two statements, so that the call runs two resolutions, each  *)
(* with its own registry request; followed over MaxRetryTime in steps of   *)
(* DocClockStep.                                                           *)
(***************************************************************************)
NextDoc ==
    \/ \E text \in TwoImports : clock = 0 /\ ValidateDocument(1, "a.ts", text)
    \/ Registry(Solo)
    \/ \E i \in DOMAIN task[1] : AbortFire(1, i)
    \/ \E i \in DOMAIN task[1] : RaceFire(1, i)
    \/ Tick(DocClockStep, MaxRetryTime)
    \/ loadProjectPackagesDone

SpecDoc == Init /\ [][NextDoc]_vars

(***************************************************************************)
(* SpecScan: the FileProcessor over a workspace of five files, with up to  *)
(* MaxScans workspace scans, single-file processing of one document,       *)
(* cancellation and file saves at any time; the validator is represented   *)
(* by the results it returns for each file.                                *)
(***************************************************************************)
InitScan ==
    /\ clock = 0
    /\ cacheTimeout = 1
    /\ registry = [p \in Pkgs |-> TRUE]
    /\ manifest = [p \in Pkgs |-> ""]
    /\ projectPackages = [p \in Pkgs |-> ""]
    /\ reloads = 0
    /\ manifestChanges = 0
    /\ _documentImportsCache = [d \in Docs |-> NoDocEntry]
    /\ _importExistenceCache = [p \in Pkgs |-> NoEntry]
    /\ packageInfoCache = [p \in Pkgs |-> NoInfoEntry]
    /\ call = [c \in Callers |-> IdleCall]
    /\ task = [c \in Callers |-> <<>>]
    /\ FileProcessorInit
    /\ DependencyInit
    /\ ClassifierInit
    /\ packageJsonFiles = <<>>

\* A call of processWorkspace: any number while a scan runs, MaxScans that
\* start one.
Call(maxScans) ==
    /\ scan.runs < maxScans \/ (Busy /\ isProcessing)
    /\ \E forceReprocess \in BOOLEAN : processWorkspace(forceReprocess)

ScanSteps ==
    \/ \E f \in Candidates : statDone(f)
    \/ \E f \in Candidates : validateDone(f)
    \/ \E f \in Candidates : jobThrows(f)
    \/ processWorkspaceReturns

NextScan ==
    \/ Call(MaxScans)
    \/ \E eligibleFiles \in EligibleLists : countEligibleFilesDone(eligibleFiles)
    \/ ScanSteps
    \/ \E f \in FileNames : validateDocumentHangs(f)
    \/ cancelProcessingOperation

SpecScan == InitScan /\ [][NextScan]_vars

(***************************************************************************)
(* SpecSession: a session over a workspace of two files: MaxSessionScans    *)
(* scans, single-file processing of one document before, during and after  *)
(* them, saves of that document and cache clearing, over MaxScanTime.      *)
(***************************************************************************)
SessionLists == {SubSeq(ScanFiles, 1, 2)}

NextSession ==
    \/ Call(MaxSessionScans)
    \/ \E eligibleFiles \in SessionLists : countEligibleFilesDone(eligibleFiles)
    \/ ScanSteps
    \/ \E f \in SoloFiles : processFileStart(f)
    \/ processFileDone
    \/ processFileThrows
    \/ FileProcessor_clearCaches
    \/ \E f \in SoloFiles : fileModified(f)
    \/ Tick(ScanClockStep, MaxScanTime)

SpecSession == InitScan /\ [][NextSession]_vars

(***************************************************************************)
(* SpecChanged: the FileProcessor of fileProcessor.ts over a workspace of  *)
(* three files, two .js and one .ts: up to MaxChangedScans scans, changed- *)
(* only or not, file saves and aborts, over MaxScanTime.                   *)
(***************************************************************************)
InitChanged ==
    /\ clock = ScanClockStep
    /\ cacheTimeout = 1
    /\ registry = [p \in Pkgs |-> TRUE]
    /\ manifest = [p \in Pkgs |-> ""]
    /\ projectPackages = [p \in Pkgs |-> ""]
    /\ reloads = 0
    /\ manifestChanges = 0
    /\ _documentImportsCache = [d \in Docs |-> NoDocEntry]
    /\ _importExistenceCache = [p \in Pkgs |-> NoEntry]
    /\ packageInfoCache = [p \in Pkgs |-> NoInfoEntry]
    /\ call = [c \in Callers |-> IdleCall]
    /\ task = [c \in Callers |-> <<>>]
    /\ isProcessing = FALSE
    /\ cancelProcessing = FALSE
    /\ stats = resetStats
    /\ processedFilesInSession = {}
    /\ processedImportsInSession = {}
    /\ errorFilesInSession = {}
    /\ processedFilesCache = [f \in FileNames |-> NoStamp]
    /\ scan = IdleChangedScan
    /\ solo = IdleSolo
    /\ returned = [by |-> "none", stats |-> resetStats]
    /\ mtime = [f \in FileNames |-> 0]
    /\ DependencyInit
    /\ ClassifierInit
    /\ packageJsonFiles = <<>>

NextChanged ==
    \/ /\ scan.runs < MaxChangedScans \/ isProcessing
       /\ \E onlyChanged \in BOOLEAN : processWorkspace_onlyChanged(onlyChanged)
    \/ \E allFiles \in ChangedLists : findFilesDone(allFiles)
    \/ \E f \in FileNames : openDone(f)
    \/ \E f \in FileNames : openThrows(f)
    \/ \E f \in FileNames : \E results \in {validateDocumentResults(f), <<>>} :
           validateSettled(f, results)
    \/ sleepDone
    \/ processWorkspace_onlyChangedReturns
    \/ abort
    \/ \E allFiles \in ChangedLists : \E k \in DOMAIN allFiles : fileModified(allFiles[k])
    \/ Tick(ScanClockStep, MaxChangedTime)

SpecChanged == InitChanged /\ [][NextChanged]_vars

(***************************************************************************)
(* SpecDeps: the two unused-dependency analyses applied to every manifest  *)
(* and every workspace of the model.                                       *)
(***************************************************************************)
InitDeps ==
    /\ clock = 0
    /\ cacheTimeout = 1
    /\ registry = [p \in Pkgs |-> TRUE]
    /\ manifest = [p \in Pkgs |-> ""]
    /\ projectPackages = [p \in Pkgs |-> ""]
    /\ reloads = 0
    /\ manifestChanges = 0
    /\ _documentImportsCache = [d \in Docs |-> NoDocEntry]
    /\ _importExistenceCache = [p \in Pkgs |-> NoEntry]
    /\ packageInfoCache = [p \in Pkgs |-> NoInfoEntry]
    /\ call = [c \in Callers |-> IdleCall]
    /\ task = [c \in Callers |-> <<>>]
    /\ FileProcessorInit
    /\ packageJson \in {PackageJsonOf(place) : place \in [DepNames -> Placements]}
    /\ workspaceImports \in [SourceFiles -> SUBSET ImportNames]
    /\ unusedDependencies = NoResult
    /\ analysed = NoResult
    /\ rescan = IdleRescan
    /\ ClassifierInit
    /\ packageJsonFiles = <<>>

NextDeps ==
    \/ findUnusedDependencies
    \/ _analyzeDependencies

SpecDeps == InitDeps /\ [][NextDeps]_vars

(***************************************************************************)
(* SpecRescan: the editor validates documents, and the two unused-         *)
(* dependency analyses are called at any time, over MaxRescanTime.         *)
(***************************************************************************)
InitRescan ==
    /\ clock = 0
    /\ cacheTimeout = 1
    /\ registry = [p \in Pkgs |-> TRUE]
    /\ manifest = [p \in Pkgs |-> ""]
    /\ projectPackages = [p \in Pkgs |-> ""]
    /\ reloads = 0
    /\ manifestChanges = 0
    /\ _documentImportsCache = [d \in Docs |-> NoDocEntry]
    /\ _importExistenceCache = [p \in Pkgs |-> NoEntry]
    /\ packageInfoCache = [p \in Pkgs |-> NoInfoEntry]
    /\ call = [c \in Callers |-> IdleCall]
    /\ task = [c \in Callers |-> <<>>]
    /\ FileProcessorInit
    /\ packageJson = RescanPackageJson
    /\ workspaceImports = [f \in SourceFiles |-> {}]
    /\ unusedDependencies = NoResult
    /\ analysed = NoResult
    /\ rescan = IdleRescan
    /\ ClassifierInit
    /\ packageJsonFiles = <<>>

NextRescan ==
    \/ \E d \in OneDoc, text \in RescanTexts : ValidateDocument(1, d, text)
    \/ \E c \in Callers : \E i \in DOMAIN task[c] : Respond200(c, i)
    \/ \E c \in Callers : \E i \in DOMAIN task[c] : DownloadsRespond(c, i, "ok")
    \/ \E s \in ClockSteps : Tick(s, MaxRescanTime)
    \/ findUnusedDependenciesCalled
    \/ \E text \in RescanTexts : getAllImportsInWorkspaceValidate(text)
    \/ getAllImportsInWorkspaceReturned
    \/ _analyzeDependencies

SpecRescan == InitRescan /\ [][NextRescan]_vars

(***************************************************************************)
(* SpecClassify: import statements are classified while the user edits the *)
(* path-alias setting.                                                     *)
(***************************************************************************)
NextClassify ==
    \/ \E aliases \in AliasConfigs : configurationChanged(aliases)
    \/ \E importPath \in Specifiers : importStatement(importPath)

SpecClassify == InitScan /\ [][NextClassify]_vars

(***************************************************************************)
(* SpecParse: a document of up to MaxStatements statements is parsed under *)
(* the contributed default of "pathAliases".                               *)
(***************************************************************************)
NextParse ==
    \/ \E text \in DocumentTexts : openTextDocument(text)
    \/ parsed.opened /\ ~parsed.called /\ extractImportsFromDocument(parsed.text)

SpecParse == InitScan /\ [][NextParse]_vars

(***************************************************************************)
(* SpecMembership: one caller validating two documents that import the     *)
(* same package, against a registry that answers every request, while the  *)
(* manifest is edited and the project index reloaded, over MaxTime.        *)
(***************************************************************************)
NextMembership ==
    \/ \E d \in Docs, text \in Texts : ValidateDocument(1, d, text)
    \/ \E i \in DOMAIN task[1] : Respond404(1, i)
    \/ \E i \in DOMAIN task[1] : Respond200(1, i)
    \/ \E i \in DOMAIN task[1] : DownloadsRespond(1, i, "ok")
    \/ \E s \in ClockSteps : Tick(s, MaxTime)
    \/ \E p \in Pkgs, v \in Versions \cup {""} : ManifestChange(p, v)
    \/ loadProjectPackagesDone

SpecMembership == Init /\ [][NextMembership]_vars

(***************************************************************************)
(* SpecTimeout: SpecRetry's single call at time 0, under the default       *)
(* cacheTimeout of 24 hours and with no project index, followed over       *)
(* MaxRetryTime in steps of DocClockStep: the validator's timer and the    *)
(* provider's retries run side by side, and every cache entry written      *)
(* stays fresh.                                                            *)
(***************************************************************************)
DefaultCacheTimeout == 86400

InitTimeout ==
    /\ clock = 0
    /\ cacheTimeout = DefaultCacheTimeout
    /\ registry \in [Pkgs -> BOOLEAN]
    /\ manifest = [p \in Pkgs |-> ""]
    /\ projectPackages = [p \in Pkgs |-> ""]
    /\ reloads = 0
    /\ manifestChanges = 0
    /\ _documentImportsCache = [d \in Docs |-> NoDocEntry]
    /\ _importExistenceCache = [p \in Pkgs |-> NoEntry]
    /\ packageInfoCache = [p \in Pkgs |-> NoInfoEntry]
    /\ call = [c \in Callers |-> IdleCall]
    /\ task = [c \in Callers |-> <<>>]
    /\ FileProcessorInit
    /\ DependencyInit
    /\ ClassifierInit
    /\ packageJsonFiles = <<>>

NextTimeout ==
    \/ \E d \in OneDoc, text \in Texts : clock = 0 /\ ValidateDocument(1, d, text)
    \/ Registry(Solo)
    \/ \E i \in DOMAIN task[1] : AbortFire(1, i)
    \/ \E i \in DOMAIN task[1] : RaceFire(1, i)
    \/ Tick(DocClockStep, MaxRetryTime)

SpecTimeout == InitTimeout /\ [][NextTimeout]_vars

(***************************************************************************)
(* SpecDuplicates: workspace scans whose candidate list names the path of  *)
(* f1 twice, as two Uris next to each other.                               *)
(***************************************************************************)
DuplicateLists == {<<"f1", "f1b", "f2">>}

NextDuplicates ==
    \/ Call(MaxScans)
    \/ \E eligibleFiles \in DuplicateLists : countEligibleFilesDone(eligibleFiles)
    \/ ScanSteps
    \/ cancelProcessingOperation

SpecDuplicates == InitScan /\ [][NextDuplicates]_vars

(***************************************************************************)
(* SpecCancel: up to MaxScans workspace scans of three files, in two       *)
(* batches, with cancelProcessingOperation at any time, between scans      *)
(* included; every file of a batch settles.                                *)
(***************************************************************************)
CancelLists == {SubSeq(ScanFiles, 1, 3)}

NextCancel ==
    \/ Call(MaxScans)
    \/ \E eligibleFiles \in CancelLists : countEligibleFilesDone(eligibleFiles)
    \/ ScanSteps
    \/ cancelProcessingOperation

SpecCancel == InitScan /\ [][NextCancel]_vars

(***************************************************************************)
(* SpecIndex: the provider is constructed over any list of manifests (its  *)
(* constructor has called loadProjectPackages), and the manifests change   *)
(* MaxIndexChanges times.                                                  *)
(***************************************************************************)
InitIndex ==
    /\ clock = 0
    /\ cacheTimeout = 1
    /\ registry = [p \in Pkgs |-> TRUE]
    /\ manifest = [p \in Pkgs |-> ""]
    /\ projectPackages = NoProjectPackages
    /\ reloads = 1
    /\ manifestChanges = 0
    /\ _documentImportsCache = [d \in Docs |-> NoDocEntry]
    /\ _importExistenceCache = [p \in Pkgs |-> NoEntry]
    /\ packageInfoCache = [p \in Pkgs |-> NoInfoEntry]
    /\ call = [c \in Callers |-> IdleCall]
    /\ task = [c \in Callers |-> <<>>]
    /\ FileProcessorInit
    /\ DependencyInit
    /\ ClassifierInit
    /\ packageJsonFiles \in ManifestLists

NextIndex ==
    \/ \E files \in ManifestLists : loadProjectPackages(files)
    \/ findFilesResolved

SpecIndex == InitIndex /\ [][NextIndex]_vars

(***************************************************************************)
(* Claims                                                                  *)
(***************************************************************************)
Age(timestamp) == clock - timestamp
Window == cacheTimeout * MsPerSecond

DocEntryFresh(d) ==
    _documentImportsCache[d].has /\ Age(_documentImportsCache[d].timestamp) < Window
DocEntryExpired(d) ==
    _documentImportsCache[d].has /\ Age(_documentImportsCache[d].timestamp) >= Window
ExistenceEntryExpired(p) ==
    _importExistenceCache[p].has /\ Age(_importExistenceCache[p].timestamp) >= Window
InfoEntryExpired(p) ==
    packageInfoCache[p].has /\ Age(packageInfoCache[p].timestamp) >= Window

\* C1: a validateDocument call that finds a document-cache entry younger than
\* cacheTimeout * 1000 ms returns the cached vector as it is, without parsing,
\* without touching the existence cache and without starting a resolution; and
\* a call that does parse stores exactly the vector it returns under its own
\* timestamp, so a second call within the window returns the same vector.
C1_FreshDocumentEntryReturnedVerbatim ==
    [][/\ \A d \in Docs, text \in Texts :
            (ValidateDocument(1, d, text) /\ DocEntryFresh(d)) =>
                /\ call'[1].pc = "returned"
                /\ call'[1].results = _documentImportsCache[d].results
                /\ ~call'[1].parsed
                /\ task'[1] = <<>>
                /\ UNCHANGED <<_documentImportsCache, _importExistenceCache,
                               packageInfoCache>>
       /\ (call[1].pc # "returned" /\ call'[1].pc = "returned" /\ call'[1].parsed) =>
                _documentImportsCache'[call'[1].doc] =
                    [has |-> TRUE, results |-> call'[1].results,
                     timestamp |-> call'[1].now]
      ]_vars

C1_Witness ==
    /\ call[1].pc = "returned"
    /\ ~call[1].parsed
    /\ Len(call[1].results) > 0
    /\ _documentImportsCache[call[1].doc].has
    /\ call[1].now > _documentImportsCache[call[1].doc].timestamp
    /\ call[1].results = _documentImportsCache[call[1].doc].results

\* C2: an entry whose age has reached cacheTimeout * 1000 ms is never used as
\* a hit: the document is parsed again, the resolution does not take the
\* existence-cache branch, and a provider entry of that age is not returned
\* but a registry request is issued; expired entries stay in the maps (only
\* clearCaches removes entries).
C2_ExpiredEntryIsAMiss ==
    [][/\ \A d \in Docs, text \in Texts :
            (ValidateDocument(1, d, text) /\ DocEntryExpired(d)) =>
                /\ call'[1].parsed
                /\ \A i \in DOMAIN task'[1] :
                      LET t == task'[1][i]
                          e == _importExistenceCache[t.pkg]
                      IN  /\ ExistenceEntryExpired(t.pkg) => t.path # "hit"
                          /\ (/\ InfoEntryExpired(t.pkg)
                              /\ (t.path = "hit" => (e.exists \/ e.isInProject)))
                                => (t.ppc = "fetch" /\ t.attempts = 1)
       /\ \A p \in Pkgs :
            (_importExistenceCache[p].has /\ ~_importExistenceCache'[p].has) =>
                clearCaches
       /\ \A d \in Docs :
            (_documentImportsCache[d].has /\ ~_documentImportsCache'[d].has) =>
                clearCaches
      ]_vars

\* With cacheTimeout = 1 a lookup whose cached result is exactly one second old
\* is resolved again from the registry; the old entries are still in the maps.
C2_Witness ==
    /\ cacheTimeout = 1
    /\ call[1].pc = "running"
    /\ task[1][1].path # "hit"
    /\ task[1][1].ppc = "fetch"
    /\ _importExistenceCache[task[1][1].pkg].has
    /\ call[1].now - _importExistenceCache[task[1][1].pkg].timestamp = MsPerSecond
    /\ packageInfoCache[task[1][1].pkg].has
    /\ _documentImportsCache[call[1].doc].has

\* C3: every existence answer validateDocument returns was obtained from the
\* registry less than cacheTimeout seconds before the call.
C3_NoAnswerOlderThanWindow ==
    \A c \in Callers :
        call[c].pc = "returned" =>
            \A i \in DOMAIN call[c].results :
                call[c].now - call[c].results[i].asOf < cacheTimeout * MsPerSecond

(***************************************************************************)
(* Claims about retry and fetchPackageInfoFromNpm (SpecRetry)              *)
(***************************************************************************)
TransientErrors == {e \in FetchErrors \cup {AbortError} : retryCondition(e)}
PermanentErrors == {e \in FetchErrors \cup {HttpError} : ~retryCondition(e)}

\* C4: an attempt that fails with a transient error while retries are left
\* ends neither the lookup nor the resolution: exactly one retry delay is
\* waited before the next attempt.  The attempt that succeeds, being attempt
\* k + 1, finds exactly k delays waited, and the lookup yields its record.  An
\* attempt that receives 404 ends the lookup at once with null, no delay and
\* no further attempt (a lookup whose first response is 404 made one attempt
\* and waited no delay), and the awaiting resolution of a non-project package
\* ends with exists = false, metadata = null.
C4_RetriesThenSuccessAndNotFound ==
    [][\A i \in DOMAIN task[1] :
         LET t == task[1][i]
             u == task'[1][i]
         IN  /\ \A e \in TransientErrors :
                  (/\ InFetch(1, i) /\ t.attempt < fetchRetryCount
                   /\ (FetchThrows(1, i, e) \/ AbortFire(1, i))) =>
                      /\ u.ppc = "delay"
                      /\ u.delays = Append(t.delays, t.delay)
                      /\ u.timerAt = clock + t.delay
                      /\ u.attempts = t.attempts
                      /\ u.outcome = "none"
                      /\ u.vpc = t.vpc
             /\ DelayFire(1, i) =>
                  /\ u.ppc = "fetch"
                  /\ u.attempts = t.attempts + 1
                  /\ clock = t.timerAt
             /\ \A o \in {"ok", "notOk", "throws"} :
                  DownloadsRespond(1, i, o) =>
                      /\ u.outcome = "ok"
                      /\ u.ppc = "done"
                      /\ u.attempts = t.attempt + 1
                      /\ u.delays = t.delays
                      /\ Len(u.delays) = t.attempt
                      /\ t.attempt <= fetchRetryCount
                      /\ t.vpc = "await" =>
                            /\ u.vpc = "done"
                            /\ u.packageInfo.kind = "npm"
                            /\ t.path # "hit" => u.existsOnNpm
                      /\ t.pVersion = "" =>
                            packageInfoCache'[t.pkg].info.kind = "npm"
             /\ Respond404(1, i) =>
                  /\ u.outcome = "notfound"
                  /\ u.ppc = "done"
                  /\ u.attempts = t.attempts
                  /\ u.delays = t.delays
                  /\ t.attempt = 0 => (u.attempts = 1 /\ u.delays = <<>>)
                  /\ t.pVersion = "" => packageInfoCache'[t.pkg].info = NullInfo
                  /\ (t.vpc = "await" /\ t.path = "race") =>
                        /\ u.vpc = "done"
                        /\ ~u.existsOnNpm
                        /\ u.packageInfo = NullInfo
      ]_vars

\* Two transient failures, then success on the third attempt after the delays
\* 1000 and 2000.
C4_Witness ==
    /\ call[1].pc = "returned"
    /\ Len(task[1]) = 1
    /\ task[1][1].outcome = "ok"
    /\ task[1][1].attempts = 3
    /\ task[1][1].delays = <<fetchRetryDelay, 2 * fetchRetryDelay>>
    /\ call[1].results[1].existsOnNpm
    /\ call[1].results[1].packageInfo.kind = "npm"

RetryDelay(n) == Min(fetchRetryDelay * retryBackoffFactor ^ (n - 1), retryMaxDelay)

\* C5: a lookup makes at most fetchRetryCount + 1 attempts, the delay before
\* the n-th retry is min(initialDelay * backoffFactor^(n-1), maxDelay), and an
\* error that does not satisfy the retry condition ends the lookup after its
\* attempt with no delay and no further attempt.
C5_BoundedExponentialBackoff ==
    [][/\ \A i \in DOMAIN task'[1] :
            LET u == task'[1][i]
            IN  /\ u.attempts <= fetchRetryCount + 1
                /\ Len(u.delays) <= fetchRetryCount
                /\ \A n \in 1..Len(u.delays) : u.delays[n] = RetryDelay(n)
                /\ u.ppc \in {"fetch", "downloads", "done"} =>
                      Len(u.delays) = u.attempts - 1
                /\ u.ppc = "delay" => Len(u.delays) = u.attempts
       /\ \A i \in DOMAIN task[1] : \A e \in PermanentErrors :
            (FetchThrows(1, i, e) \/ (e = HttpError /\ RespondNotOk(1, i))) =>
                /\ task'[1][i].ppc = "done"
                /\ task'[1][i].outcome = "failed"
                /\ task'[1][i].attempts = task[1][i].attempts
                /\ task'[1][i].delays = task[1][i].delays
      ]_vars

\* All four attempts failed with transient errors: the delays were 1000, 2000
\* and 4000.
C5_Witness ==
    /\ Len(task[1]) = 1
    /\ task[1][1].outcome = "failed"
    /\ task[1][1].attempts = fetchRetryCount + 1
    /\ task[1][1].delays = <<1000, 2000, 4000>>

LookupFails(i) ==
    /\ InFetch(1, i)
    /\ \E e \in FetchErrors \cup {HttpError, AbortError} :
          /\ retryRethrows(task[1][i].attempt, fetchRetryCount, e)
          /\ \/ FetchThrows(1, i, e)
             \/ e = HttpError /\ RespondNotOk(1, i)
             \/ e = AbortError /\ AbortFire(1, i)

\* C6 as stated: whenever every attempt of the registry lookup of a
\* resolution has failed, the resolution is complete with exists = false and
\* metadata = null.
C6_FailedLookupMeansNotExisting ==
    \A i \in DOMAIN task[1] :
        (task[1][i].outcome = "failed" /\ task[1][i].vpc = "done") =>
            (~task[1][i].existsOnNpm /\ task[1][i].packageInfo = NullInfo)

\* C6 amended: when the last attempt of a lookup fails, the awaiting
\* resolution completes with a value (nothing is thrown) and the call returns
\* once every resolution has: exists = false and metadata = null for a
\* package outside the project index that missed the existence cache,
\* exists = true and the minimal record for a package in the project index,
\* and the cached existence flag on a fresh existence-cache hit.
C6_FailedLookupDegrades ==
    [][\A i \in DOMAIN task[1] :
         LET t == task[1][i]
             u == task'[1][i]
         IN  LookupFails(i) =>
               /\ u.outcome = "failed"
               /\ u.ppc = "done"
               /\ t.vpc = "await" =>
                    /\ u.vpc = "done"
                    /\ t.path = "race" =>
                          (~u.existsOnNpm /\ u.packageInfo = NullInfo)
                    /\ t.path = "project" =>
                          /\ u.existsOnNpm
                          /\ u.packageInfo = minimalInfo(t.pkg, getInstalledVersion(t.pkg))
                    /\ t.path = "hit" =>
                          /\ u.existsOnNpm = t.existsOnNpm
                          /\ u.packageInfo \in {NullInfo, minimalInfo(t.pkg, t.pVersion)}
               /\ (call[1].pc = "running" /\ AllSettled(task'[1])) =>
                    /\ call'[1].pc = "returned"
                    /\ call'[1].results = ResultsOf(task'[1])
      ]_vars

\* Retry exhaustion for a package outside the project index: four attempts,
\* then exists = false and metadata = null are returned.
C6_Witness ==
    /\ call[1].pc = "returned"
    /\ Len(task[1]) = 1
    /\ task[1][1].path = "race"
    /\ task[1][1].outcome = "failed"
    /\ task[1][1].attempts = fetchRetryCount + 1
    /\ ~call[1].results[1].existsOnNpm
    /\ call[1].results[1].packageInfo = NullInfo

ParsingCall == \E d \in Docs, text \in Texts :
                  ValidateDocument(1, d, text) /\ ~_isCacheValid(d, clock, cacheTimeout)

WrittenEntry(u, now) ==
    /\ _importExistenceCache'[u.pkg].has
    /\ _importExistenceCache'[u.pkg].exists = u.existsOnNpm
    /\ _importExistenceCache'[u.pkg].isInProject = u.isInProject
    /\ _importExistenceCache'[u.pkg].timestamp = now

\* C7: the step in which a resolution that missed the existence cache ends
\* (with a registry record, a 404, the PROCESSING_TIMEOUT timer or a failed
\* lookup, at once or after awaiting) leaves an existence entry for its
\* package holding the existence answer and the project flag, stamped with
\* the timestamp of its validateDocument call; and a resolution that finds a
\* fresh negative entry of a non-project package answers exists = false,
\* metadata = null without a registry request.
C7_ExistenceCachedOnEveryOutcome ==
    [][/\ ParsingCall =>
            \A i \in DOMAIN task'[1] :
                (task'[1][i].vpc = "done" /\ task'[1][i].path # "hit") =>
                    WrittenEntry(task'[1][i], clock)
       /\ ~ParsingCall =>
            \A i \in DOMAIN task[1] :
                (/\ i \in DOMAIN task'[1]
                 /\ task[1][i].vpc = "await" /\ task'[1][i].vpc = "done"
                 /\ task[1][i].path # "hit") =>
                    WrittenEntry(task'[1][i], call[1].now)
       /\ ParsingCall =>
            \A i \in DOMAIN task'[1] :
                LET u == task'[1][i]
                    e == _importExistenceCache[u.pkg]
                IN  (/\ e.has /\ clock - e.timestamp < cacheTimeout * MsPerSecond
                     /\ ~e.exists /\ ~e.isInProject) =>
                        /\ u.vpc = "done"
                        /\ ~u.existsOnNpm
                        /\ u.packageInfo = NullInfo
                        /\ u.ppc = "none"
                        /\ u.attempts = 0
                        /\ UNCHANGED <<_importExistenceCache, packageInfoCache>>
      ]_vars

\* The PROCESSING_TIMEOUT timer ended the resolution while the lookup was
\* still running: the negative entry carries the timestamp of the call.
C7_Witness ==
    /\ clock >= PROCESSING_TIMEOUT
    /\ call[1].pc = "returned"
    /\ Len(task[1]) = 1
    /\ task[1][1].path = "race"
    /\ task[1][1].ppc \in {"fetch", "delay", "downloads"}
    /\ _importExistenceCache[task[1][1].pkg].has
    /\ ~_importExistenceCache[task[1][1].pkg].exists
    /\ _importExistenceCache[task[1][1].pkg].timestamp = call[1].now
    /\ call[1].now = 0

\* A second document importing the package is answered from the negative
\* entry the first lookup left.
C7_NegativeAnswerReached ==
    /\ call[1].pc = "returned"
    /\ call[1].parsed
    /\ call[1].doc = "b.ts"
    /\ _documentImportsCache["a.ts"].has
    /\ Len(task[1]) = 1
    /\ task[1][1].path = "hit"
    /\ task[1][1].ppc = "none"
    /\ ~call[1].results[1].existsOnNpm

(***************************************************************************)
(* Claims about project packages and timeouts                              *)
(***************************************************************************)
\* C8: a resolution of a package that is in the project index at the time of
\* the call and has no fresh existence-cache entry reports exists = true with
\* non-null metadata, and metadata that is not a registry record is the
\* minimal record: declared version, downloads 0, license "Unknown".
C8_ProjectPackageNeverFails ==
    \A i \in DOMAIN task[1] :
        LET t == task[1][i]
        IN  (t.path = "project" /\ t.vpc = "done") =>
                /\ t.existsOnNpm
                /\ t.packageInfo # NullInfo
                /\ t.packageInfo.kind # "npm" =>
                      /\ t.packageInfo.version \in Versions
                      /\ t.packageInfo.downloads = 0
                      /\ t.packageInfo.license = "Unknown"

\* C9: every registry request is abandoned when the request timeout elapses,
\* so no resolution is still waiting for a request (the metadata request or
\* the download-count request) issued more than the request timeout ago.
C9_NoResolutionWaitsBeyondRequestTimeout ==
    \A i \in DOMAIN task[1] :
        LET t == task[1][i]
        IN  (call[1].pc = "running" /\ t.vpc = "await") =>
                /\ t.ppc = "fetch" => clock <= t.timerAt
                /\ t.ppc = "downloads" => clock - t.dataAt <= FetchAbortTimeout

(***************************************************************************)
(* Claims about concurrent callers (SpecConc)                              *)
(***************************************************************************)
\* The existence answer of a package under a fixed registry and manifest.
Answer(p) == registry[p] \/ manifest[p] # ""

\* C10: under every interleaving of two callers resolving the same package,
\* every result returned carries the same existence answer (the one the fixed
\* registry and project index determine), every existence-cache entry holds
\* that answer, and a provider entry holds metadata exactly when the package
\* has some.
C10_ConcurrentResolutionsAgree ==
    /\ \A c \in Callers :
          /\ call[c].pc = "returned" =>
                \A i \in DOMAIN call[c].results :
                    call[c].results[i].existsOnNpm = Answer(call[c].results[i].importName)
          /\ \A i \in DOMAIN task[c] :
                task[c][i].vpc = "done" => task[c][i].existsOnNpm = Answer(task[c][i].pkg)
    /\ \A p \in Pkgs :
          /\ _importExistenceCache[p].has =>
                /\ _importExistenceCache[p].exists = Answer(p)
                /\ _importExistenceCache[p].isInProject = (manifest[p] # "")
          /\ packageInfoCache[p].has => (packageInfoCache[p].info # NullInfo) = Answer(p)
    /\ \A c1, c2 \in Callers :
          (call[c1].pc = "returned" /\ call[c2].pc = "returned") =>
              \A i \in DOMAIN call[c1].results, j \in DOMAIN call[c2].results :
                  call[c1].results[i].importName = call[c2].results[j].importName =>
                      call[c1].results[i].existsOnNpm = call[c2].results[j].existsOnNpm

\* Both callers missed the caches, both sent a request for the same package,
\* and both have returned.
C10_Witness ==
    /\ call[1].pc = "returned" /\ call[2].pc = "returned"
    /\ call[1].parsed /\ call[2].parsed
    /\ Len(task[1]) = 1 /\ Len(task[2]) = 1
    /\ task[1][1].pkg = task[2][1].pkg
    /\ task[1][1].attempts = 1 /\ task[2][1].attempts = 1
    /\ task[1][1].path = "race" /\ task[2][1].path = "race"
    /\ call[1].results[1].existsOnNpm = call[2].results[1].existsOnNpm
    /\ _importExistenceCache[task[1][1].pkg].has

(***************************************************************************)
(* C11                                                                     *)
(***************************************************************************)
\* The only error a resolution raises inside _validateImport: the rejection
\* of the PROCESSING_TIMEOUT promise that wins the race against the lookup.
ResolutionThrows(i) == RaceFire(1, i)

Scanning == scan.pc # "idle"

\* C12: at most one workspace scan is running at any time; a call of
\* processWorkspace made while a scan is running starts no scan, returns the
\* current statistics, and leaves the statistics, the session sets, the
\* cancellation flag and the running scan as they are.
C12_OneScanAtATime ==
    /\ [](scan.active <= 1 /\ (Scanning <=> isProcessing))
    /\ [][\A forceReprocess \in BOOLEAN :
            (Scanning /\ processWorkspace(forceReprocess)) =>
              /\ returned' = [by |-> "busy", stats |-> stats]
              /\ UNCHANGED <<isProcessing, cancelProcessing, stats,
                             processedFilesInSession, processedImportsInSession,
                             errorFilesInSession, processedFilesCache, scan>>
       ]_vars

\* A call has been answered with the current statistics while a batch of the
\* running scan was in flight.
C12_Witness ==
    /\ returned.by = "busy"
    /\ Scanning
    /\ scan.runs = 1
    /\ \E f \in FileNames : scan.job[f].pc = "validate"
    /\ returned.stats = stats

(***************************************************************************)
(* C13                                                                     *)
(***************************************************************************)
\* Some step of the running scan is pending: the file count, the finally
\* block, or the stat or validation of a file of the batch in flight.
ScanCanProceed ==
    \/ scan.pc \in {"count", "returning"}
    \/ \E f \in FileNames : scan.job[f].pc \in {"stat", "validate"}

\* C13: a started scan always ends: as long as isProcessing is set, a step
\* of the scan is pending whose completion brings the scan closer to its
\* finally block, where the flag is cleared and a later call is admitted.
C13_RunningScanCanProceed == isProcessing => ScanCanProceed

(***************************************************************************)
(* C14                                                                     *)
(***************************************************************************)
\* The scan has left its loop; its statistics are final.
ScanOver == scan.pc = "returning" /\ scan.files # <<>>

\* The cancellation of the scan was requested while its second batch was in
\* flight, that is, after its first batch had completed.
CancelledAfterFirstBatch == scan.admittedAtCancel = Min(Len(scan.files), 2 * batchSize)

NotStarted(sc, f) == sc.job[f].pc = "none"

\* C15: while the cancellation flag is set, no file of the running scan
\* whose work has not started is started: it is neither stat-ed nor opened
\* nor validated, and the counters of the scan do not move for it.
C15_NoFileStartsAfterCancel ==
    [][(cancelProcessing /\ Scanning /\ scan'.runs = scan.runs) =>
          \A f \in FileNames : NotStarted(scan, f) => NotStarted(scan', f)
      ]_vars

\* The flag was set while the first batch was in flight; the batch has
\* finished and the scan has left its loop with every later file untouched.
C15_Witness ==
    /\ cancelProcessing
    /\ scan.pc = "returning"
    /\ scan.admittedAtCancel = batchSize
    /\ scan.processedCount = batchSize
    /\ Cardinality({f \in FileNames : NotStarted(scan, f)}) = Len(scan.files) - batchSize
    /\ Len(scan.files) > batchSize

(***************************************************************************)
(* C16                                                                     *)
(***************************************************************************)
\* The (file, importName, syntaxKind) tuples counted in this session.
SessionTuples == Cardinality(processedImportsInSession)

\* C16: each (file, importName, syntaxKind) tuple is counted at most once per
\* session: totalImports is at most the number of distinct tuples counted in
\* the session, and so is each of validImports, invalidImports,
\* frameworkImports and projectImports.
C16_EachTupleCountedOnce ==
    /\ stats.totalImports <= SessionTuples
    /\ stats.validImports <= SessionTuples
    /\ stats.invalidImports <= SessionTuples
    /\ stats.frameworkImports <= SessionTuples
    /\ stats.projectImports <= SessionTuples

(***************************************************************************)
(* C18                                                                     *)
(***************************************************************************)
\* File f is a candidate of the running scan.
Candidate(sc, f) == \E k \in DOMAIN sc.allFiles : sc.allFiles[k] = f

\* File f passed the filter of the running scan.
ToProcess(sc, f) == \E k \in DOMAIN sc.files : sc.files[k] = f

\* C18: in a changed-only scan a candidate is validated if and only if it
\* was never processed or was modified after its last-processed stamp: a
\* candidate dropped by the filter, or finished without validation for
\* another reason than an error of its own, is unchanged, and a candidate
\* whose validation starts is changed.
C18_ValidatedIffChanged ==
    [][(scan'.onlyChanged /\ scan'.runs = scan.runs /\ ~cancelProcessing) =>
         \A f \in FileNames :
            /\ (scan.pc = "find" /\ Candidate(scan', f)
                  /\ (scan'.job[f].pc = "done" \/ ~ToProcess(scan', f)))
                  => ~hasFileChanged(f)
            /\ (scan.pc # "find" /\ scan.job[f].pc # "done" /\ scan'.job[f].pc = "done"
                  /\ ~scan'.job[f].validated /\ ~openThrows(f)) => ~hasFileChanged(f)
            /\ (scan.job[f].pc # "validate" /\ scan'.job[f].pc = "validate") =>
                  hasFileChanged(f)
      ]_vars

(***************************************************************************)
(* C17                                                                     *)
(***************************************************************************)
InErrorFiles(st, f) == \E k \in DOMAIN st.errorFiles : st.errorFiles[k] = f

InFlight == {f \in FileNames : scan.job[f].pc \notin {"none", "done"}}

Position(f) == CHOOSE k \in DOMAIN scan.files : scan.files[k] = f

\* C19: at most batchSize files of a scan are in flight; they all belong to
\* the current batch; every file of an earlier batch has settled and no file
\* of a later batch has started; and one progress report has been made for
\* each batch that settled.
C19_BoundedBatches ==
    scan.pc = "batch" =>
        /\ Cardinality(InFlight) <= batchSize
        /\ InFlight \subseteq Batch(scan)
        /\ \A f \in FileNames :
              (\E k \in DOMAIN scan.files : scan.files[k] = f) =>
                 /\ Position(f) <= scan.i => scan.job[f].pc = "done"
                 /\ Position(f) > scan.i + batchSize => scan.job[f].pc = "none"
        /\ Len(scan.reports) * batchSize = scan.i
        /\ stats.processingPercentage =
              IF scan.i = 0 THEN stats.processingPercentage
              ELSE scan.reports[Len(scan.reports)]

\* The second batch is in flight with batchSize validations running, after
\* one progress report.
C19_Witness ==
    /\ scan.pc = "batch"
    /\ scan.i = batchSize
    /\ Cardinality({f \in FileNames : scan.job[f].pc = "validate"}) = batchSize
    /\ Len(scan.reports) = 1

(***************************************************************************)
(* C20: findUnusedDependencies returns exactly the map from name to        *)
(* declared version of the manifest-declared dependencies that no          *)
(* validated workspace file imports, without the peer dependencies and     *)
(* without the names the skip-list matches; a package some file imports    *)
(* is never reported.  Stated of both implementations.                     *)
(***************************************************************************)
SectionsOf(n) ==
    {type \in DOMAIN packageJson : n \in DOMAIN packageJson[type]}

DeclaredVersions(n) == {packageJson[type][n] : type \in SectionsOf(n)}

UnusedNames ==
    {n \in DepNames :
        /\ SectionsOf(n) # {}
        /\ "peerDependencies" \notin SectionsOf(n)
        /\ ~shouldSkipDependency(n)
        /\ n \notin getAllImports(workspaceImports)}

C20_UnusedDependenciesExact ==
    /\ unusedDependencies.done =>
        /\ DOMAIN unusedDependencies.value = UnusedNames
        /\ \A n \in DOMAIN unusedDependencies.value :
               unusedDependencies.value[n] \in DeclaredVersions(n)
    /\ analysed.done =>
        /\ {d.name : d \in analysed.value} = UnusedNames
        /\ \A d \in analysed.value : d.version \in DeclaredVersions(d.name)

(***************************************************************************)
(* C21: findUnusedDependencies works from the import lists that earlier    *)
(* validation cached: none of its steps validates a document or starts a   *)
(* registry lookup, and none changes the document cache, the existence     *)
(* cache or the processing statistics.  Stated of both implementations.    *)
(***************************************************************************)
\* A step of FileProcessor.findUnusedDependencies or of _analyzeDependencies.
UnusedAnalysisStep == rescan' # rescan \/ analysed' # analysed

\* The step parsed a document or started the resolutions of one.
ValidationTriggered ==
    \E c \in Callers : call'[c] # call[c] /\ call'[c].parsed

\* The step sent a request to the registry.
LookupTriggered ==
    \E c \in Callers : \E i \in DOMAIN task'[c] :
        /\ task'[c][i].ppc = "fetch"
        /\ task'[c] # task[c]

C21_AnalysisReadsCachedLists ==
    [][UnusedAnalysisStep =>
          /\ ~ValidationTriggered
          /\ ~LookupTriggered
          /\ UNCHANGED <<_documentImportsCache, _importExistenceCache, stats>>]_vars

(***************************************************************************)
(* C22: every specifier is classified Local or External, and it is Local   *)
(* exactly when it starts with "." or "/", or with a default or configured *)
(* path alias, or with "@" and identifier characters while it either has   *)
(* no "/" or starts with a configured alias; "./foo" and "~/x" are Local,  *)
(* "@scope/pkg" is External "@scope/pkg", "lodash/get" is External         *)
(* "lodash".  The configuration is the one in force at the call.           *)
(***************************************************************************)
LocalByRule(S, aliases) ==
    \/ startsWith(S, <<".">>)
    \/ startsWith(S, <<"/">>)
    \/ someStartsWith(S, COMMON_PATH_ALIASES)
    \/ someStartsWith(S, aliases)
    \/ /\ matchesScope(S)
       /\ ~includes(S, <<"/">>) \/ someStartsWith(S, aliases)

ExamplesOfC22 ==
    /\ classified.importPath \in {<<".", "/", "f", "o", "o">>, <<"~", "/", "x">>} => classified.isLocal
    /\ classified.importPath = <<"@", "s", "c", "o", "p", "e", "/", "p", "k", "g">> =>
          ~classified.isLocal /\ classified.importName = <<"@", "s", "c", "o", "p", "e", "/", "p", "k", "g">>
    /\ classified.importPath = <<"l", "o", "d", "a", "s", "h", "/", "g", "e", "t">> =>
          ~classified.isLocal /\ classified.importName = <<"l", "o", "d", "a", "s", "h">>

C22_LocalIffPrefixRule ==
    classified.called =>
        /\ classified.isLocal <=> LocalByRule(classified.importPath, classified.aliases)
        /\ ExamplesOfC22

(***************************************************************************)
(* C23: the root package name of an External specifier that begins with    *)
(* "@" is its first two path segments, that of any other External          *)
(* specifier is its first path segment; "@babel/core/lib/x" gives          *)
(* "@babel/core" and "axios/dist/node" gives "axios".                      *)
(***************************************************************************)
SlashCount(s) == Cardinality({k \in DOMAIN s : s[k] = "/"})

\* name is made of the first segments of S, with slashes separators in it.
IsLeadingSegments(name, S, slashes) ==
    /\ startsWith(S, name)
    /\ Len(name) = Len(S) \/ S[Len(name) + 1] = "/"
    /\ SlashCount(name) = slashes

ExamplesOfC23 ==
    /\ classified.importPath = <<"@", "b", "a", "b", "e", "l", "/", "c", "o", "r", "e", "/", "l", "i", "b", "/", "x">> =>
          classified.importName = <<"@", "b", "a", "b", "e", "l", "/", "c", "o", "r", "e">>
    /\ classified.importPath = <<"a", "x", "i", "o", "s", "/", "d", "i", "s", "t", "/", "n", "o", "d", "e">> =>
          classified.importName = <<"a", "x", "i", "o", "s">>

C23_AtMeansTwoSegments ==
    classified.called /\ ~classified.isLocal =>
        LET S == classified.importPath
            two == startsWith(S, <<"@">>) /\ includes(S, <<"/">>)
        IN  /\ IsLeadingSegments(classified.importName, S, IF two THEN 1 ELSE 0)
            /\ ExamplesOfC23

\* C23, amended: a specifier that begins with "@/" is not a scoped one, its
\* root name is its first path segment "@".
C23_ScopedMeansTwoSegments ==
    classified.called /\ ~classified.isLocal =>
        LET S == classified.importPath
            two == /\ startsWith(S, <<"@">>)
                   /\ ~startsWith(S, <<"@", "/">>)
                   /\ includes(S, <<"/">>)
        IN  /\ IsLeadingSegments(classified.importName, S, IF two THEN 1 ELSE 0)
            /\ ExamplesOfC23

C23_Witness ==
    /\ classified.called
    /\ ~classified.isLocal
    /\ classified.importPath = <<"@", "b", "a", "b", "e", "l", "/", "c", "o", "r", "e", "/", "l", "i", "b", "/", "x">>
    /\ classified.importName = <<"@", "b", "a", "b", "e", "l", "/", "c", "o", "r", "e">>

(***************************************************************************)
(* C24: the importName of every import that reaches the results is a root  *)
(* package name: it has no "/" but the one between scope and name of       *)
(* "@scope/name", and it is neither a relative path nor a path-alias       *)
(* specifier under the configuration in force.                             *)
(***************************************************************************)
IsRootName(name) ==
    \/ SlashCount(name) = 0
    \/ /\ SlashCount(name) = 1
       /\ startsWith(name, <<"@">>)
       /\ ~startsWith(name, <<"@", "/">>)

C24_ImportNameIsRootName ==
    classified.inResults =>
        /\ IsRootName(classified.importName)
        /\ ~startsWith(classified.importName, <<".">>)
        /\ ~startsWith(classified.importName, <<"/">>)
        /\ ~someStartsWith(classified.importName,
                           COMMON_PATH_ALIASES \o classified.aliases)

(***************************************************************************)
(* C25: the memoised classifier answers every call as the function it      *)
(* wraps would, evaluated against the path-alias configuration in force at *)
(* that call, whatever calls and configuration changes came before.        *)
(***************************************************************************)
C25_MemoisedAgreesWithFunction ==
    classified.called =>
        classified.isLocal = _isLocalImportBody(classified.importPath, classified.aliases)

(***************************************************************************)
(* C26: when a reload completes, the index maps a name to a version        *)
(* exactly when some well-formed manifest declares the name in one of its  *)
(* four sections, the version being that of the last declaration met       *)
(* (last manifest, last section); a malformed manifest adds nothing and    *)
(* does not keep the other manifests from being loaded.                    *)
(***************************************************************************)
SectionNames == <<"dependencies", "devDependencies", "peerDependencies",
                  "optionalDependencies">>

\* The declarations of name in files, as <<file number, section number>>.
Declarations(files, name) ==
    {d \in (DOMAIN files) \X (DOMAIN SectionNames) :
        /\ files[d[1]].wellFormed
        /\ name \in DOMAIN files[d[1]][SectionNames[d[2]]]}

Later(d, e) == d[1] > e[1] \/ (d[1] = e[1] /\ d[2] >= e[2])

LastDeclared(files, name) ==
    LET ds == Declarations(files, name)
        last == CHOOSE d \in ds : \A e \in ds : Later(d, e)
    IN  IF ds = {} THEN "" ELSE files[last[1]][SectionNames[last[2]]][name]

C26_ReloadUnionsWellFormedManifests ==
    [][reloads' < reloads =>
          \A n \in IndexNames : projectPackages'[n] = LastDeclared(packageJsonFiles', n)]_vars

C26_Witness ==
    /\ reloads = 0
    /\ Len(packageJsonFiles) = 2
    /\ ~packageJsonFiles[1].wellFormed
    /\ "react" \in DOMAIN packageJsonFiles[2].devDependencies
    /\ projectPackages["react"] = ">=16"
    /\ projectPackages["left-pad"] = ""

(***************************************************************************)
(* C27: the index is rebuilt on every manifest notification: once the      *)
(* reloads have finished, isPackageInProject(name) is true exactly for the *)
(* names the manifests declare as they then are, names that were removed   *)
(* being gone, also when notifications arrived while a reload was pending. *)
(***************************************************************************)
C27_IndexFollowsManifests ==
    reloads = 0 =>
        \A n \in IndexNames :
            (projectPackages[n] # "") <=> Declarations(packageJsonFiles, n) # {}

C27_Witness ==
    /\ reloads = 0
    /\ manifestChanges = MaxIndexChanges
    /\ packageJsonFiles = <<Malformed>>
    /\ \A n \in IndexNames : projectPackages[n] = ""

(***************************************************************************)
(* C28                                                                     *)
(***************************************************************************)
\* C28: a registry response with a non-2xx status other than 404 is eligible
\* for retry (while retries are left, the lookup waits its current delay and
\* will call the registry again), whereas a 404 response ends the lookup at
\* once as "package does not exist", with no delay and no further attempt.
C28_NonOkIsRetryEligible ==
    [][\A i \in DOMAIN task[1] :
         LET t == task[1][i]
             u == task'[1][i]
         IN  /\ (RespondNotOk(1, i) /\ t.attempt < fetchRetryCount) =>
                   /\ u.ppc = "delay"
                   /\ u.outcome = "none"
                   /\ u.delays = Append(t.delays, t.delay)
             /\ Respond404(1, i) =>
                   /\ u.ppc = "done"
                   /\ u.outcome = "notfound"
                   /\ u.delays = t.delays
      ]_vars

(***************************************************************************)
(* C29                                                                     *)
(***************************************************************************)
\* C29: when the download-count request that follows a successful metadata
\* request ends with a non-OK status or throws, the lookup still succeeds: it
\* yields the registry record of the package with downloads = 0, which is
\* what getPackageInfo caches (for a package outside the project index) and
\* what the awaiting resolution reports, as existing.
C29_DownloadsFailureKeepsMetadata ==
    [][\A c \in Callers : \A i \in DOMAIN task[c] : \A o \in {"notOk", "throws"} :
         LET t == task[c][i]
             u == task'[c][i]
             record == NpmInfo(t.pkg, FALSE, isPackageInProject(t.pkg))
         IN  DownloadsRespond(c, i, o) =>
               /\ record.kind = "npm" /\ record.downloads = 0
               /\ u.outcome = "ok"
               /\ u.ppc = "done"
               /\ Len(u.delays) = Len(t.delays)
               /\ t.pVersion = "" =>
                     /\ packageInfoCache'[t.pkg].has
                     /\ packageInfoCache'[t.pkg].info = record
               /\ t.vpc = "await" =>
                     /\ u.vpc = "done"
                     /\ u.packageInfo = record
                     /\ t.path # "hit" => u.existsOnNpm
      ]_vars

\* A call has returned a package as existing, with its registry record and
\* downloads = 0: the download-count request of its lookup failed.
C29_Witness ==
    \E c \in Callers :
        /\ call[c].pc = "returned"
        /\ Len(task[c]) = 1
        /\ task[c][1].outcome = "ok"
        /\ call[c].results[1].existsOnNpm
        /\ call[c].results[1].packageInfo.kind = "npm"
        /\ call[c].results[1].packageInfo.version = "2.0.0"
        /\ call[c].results[1].packageInfo.downloads = 0

(***************************************************************************)
(* C30                                                                     *)
(***************************************************************************)
\* C30: the vector a validateDocument call returns has one entry per emitted
\* import, the k-th entry naming the k-th emitted import; when the call ran
\* the resolutions itself, the k-th entry is the result of the k-th
\* resolution, in whatever order the resolutions were completed (a call
\* answered from the document cache returns the vector stored there).
C30_ResultsInEmissionOrder ==
    [][call'[1].pc = "returned" =>
         LET imports == _extractImportsFromDocument(call'[1].text)
             results == call'[1].results
         IN  /\ Len(results) = Len(imports)
             /\ \A k \in DOMAIN imports : results[k].importName = imports[k]
             /\ call[1].pc = "running" =>
                   /\ Len(task'[1]) = Len(imports)
                   /\ \A k \in DOMAIN imports :
                         /\ task'[1][k].pkg = imports[k]
                         /\ results[k] = ImportResultOf(task'[1][k])
             /\ call[1].pc # "running" /\ call' # call =>
                   results = _documentImportsCache[call'[1].doc].results
      ]_vars

\* The resolution of the second import got its answer before that of the
\* first, and the two results differ.
C30_Witness ==
    /\ call[1].pc = "returned"
    /\ Len(call[1].results) = 2
    /\ Len(task[1]) = 2
    /\ task[1][2].asOf < task[1][1].asOf
    /\ call[1].results[2].existsOnNpm
    /\ ~call[1].results[1].existsOnNpm
    /\ call[1].results[1] = ImportResultOf(task[1][1])

(***************************************************************************)
(* C31                                                                     *)
(***************************************************************************)
ParseFails(text) == \E k \in DOMAIN text : text[k].form \in NotJavaScript

NonLocalAt(text, k) ==
    /\ text[k].form # "syntaxError"
    /\ ~_isLocalImportBody(text[k].importPath, pathAliases)

Emitted(imports, text, k, importType) ==
    \E i \in DOMAIN imports :
        /\ imports[i].range = k
        /\ imports[i].importType = importType
        /\ imports[i].importName = _extractPackageName(text[k].importPath)

\* C31: parsing a text never throws; when the structural parse fails, the
\* regex scan of the raw text yields the import statements it matches; the
\* type-import extractor yields the type imports whether the structural
\* parse failed or not; and the parser reports no occurrence only if no
\* non-local import statement of the text is matched by any of its patterns.
C31_ParseFailureDegradesToRegex ==
    parsed.called =>
        LET text == parsed.text
            imports == parsed.imports
        IN  /\ ~parsed.threw
            /\ ParseFails(text) =>
                  \A k \in DOMAIN text :
                      (text[k].form \in importRegex /\ NonLocalAt(text, k)) =>
                          Emitted(imports, text, k, ES6)
            /\ ~ParseFails(text) =>
                  \A k \in DOMAIN text :
                      (text[k].form = "import" /\ NonLocalAt(text, k)) =>
                          Emitted(imports, text, k, ES6)
            /\ \A k \in DOMAIN text :
                  (text[k].form \in typeImportRegex \cup inlineTypeImportRegex
                     /\ NonLocalAt(text, k)) =>
                      Emitted(imports, text, k, TYPE)
            /\ imports = <<>> =>
                  \A k \in DOMAIN text :
                      text[k].form \in importRegex \cup typeImportRegex
                                         \cup inlineTypeImportRegex \cup requireRegex
                                         \cup dynamicRequireRegex
                          => ~NonLocalAt(text, k)

\* A text the structural parse rejects (malformed text before an import):
\* the import was found by the regex scan.
C31_Witness ==
    /\ parsed.called
    /\ Len(parsed.text) = 2
    /\ parsed.text[1].form = "syntaxError"
    /\ parsed.text[2] = Statement("import", <<"l", "o", "d", "a", "s", "h", "/", "g", "e", "t">>)
    /\ parsed.imports = <<[importName |-> <<"l", "o", "d", "a", "s", "h">>, range |-> 2,
                           importType |-> ES6]>>

(***************************************************************************)
(* C32                                                                     *)
(***************************************************************************)
\* C32: every require("<spec>") call with a non-local specifier, as the
\* initializer of a declaration or as a bare call, yields an occurrence with
\* import type COMMONJS that carries the root package name of the specifier.
C32_RequireCallsAreRecognised ==
    parsed.called =>
        \A k \in DOMAIN parsed.text :
            (parsed.text[k].form \in {"declRequire", "bareRequire"}
               /\ NonLocalAt(parsed.text, k)) =>
                Emitted(parsed.imports, parsed.text, k, COMMONJS)

(***************************************************************************)
(* C33                                                                     *)
(***************************************************************************)
\* C33: when a workspace scan that was not cancelled returns, the counters
\* processedFiles, skippedFiles and unchangedFiles of its statistics add up
\* to the number of candidate files capped at maxFiles.
C33_EveryCandidateAccountedOnce ==
    [][(processWorkspaceReturns /\ ~cancelProcessing) =>
          /\ Len(scan.files) = Min(returned'.stats.totalFiles, maxFiles)
          /\ returned'.stats.processedFiles + returned'.stats.skippedFiles
               + returned'.stats.unchangedFiles = Len(scan.files)
      ]_vars

(***************************************************************************)
(* C34                                                                     *)
(***************************************************************************)
\* C34: the vector a validateDocument call returns is the validation of the
\* text passed in that call: it has one result per import of that text,
\* naming that import, also when the text differs from the text an earlier
\* call for the same document was given.
C34_ResultsAreOfTheTextPassed ==
    [][(call'[1].pc = "returned" /\ call'[1] # call[1]) =>
          LET imports == _extractImportsFromDocument(call'[1].text)
          IN  /\ Len(call'[1].results) = Len(imports)
              /\ \A k \in DOMAIN imports : call'[1].results[k].importName = imports[k]
      ]_vars

(***************************************************************************)
(* C35                                                                     *)
(***************************************************************************)
\* C35: in every result a validateDocument call has returned, a package
\* reported as a project dependency is reported as existing.
C35_ProjectDependencyExists ==
    \A c \in Callers :
        call[c].pc = "returned" =>
            \A k \in DOMAIN call[c].results :
                call[c].results[k].isInProject => call[c].results[k].existsOnNpm

(***************************************************************************)
(* C36                                                                     *)
(***************************************************************************)
\* C36: whenever the existence cache and the package-info cache both hold a
\* fresh entry for a package that is not a project dependency, the existence
\* entry says exists = true exactly if the cached metadata is not null.
C36_CachesAgree ==
    \A p \in Pkgs :
        (/\ ExistenceCacheFresh(p, clock, cacheTimeout)
         /\ PackageInfoCacheFresh(p, clock, cacheTimeout)
         /\ ~isPackageInProject(p)
         /\ ~_importExistenceCache[p].isInProject
         /\ packageInfoCache[p].info.kind # "minimal") =>
            (_importExistenceCache[p].exists <=> packageInfoCache[p].info # NullInfo)

(***************************************************************************)
(* C37                                                                     *)
(***************************************************************************)
RECURSIVE ImportsOfFiles(_)
ImportsOfFiles(files) ==
    IF files = {} THEN 0
    ELSE LET f == CHOOSE g \in files : TRUE
         IN  Len(validateDocumentResults(f)) + ImportsOfFiles(files \ {f})

\* C37: within a scan session a path is validated and counted once at most:
\* the scan has counted as processed no more files than there are paths in
\* the session's set of processed files, and totalImports holds the imports
\* of each of these paths once.
C37_PathCountedOncePerSession ==
    /\ scan.processedCount <= Cardinality(processedFilesInSession)
    /\ stats.totalImports <= ImportsOfFiles(processedFilesInSession)

(***************************************************************************)
(* C38                                                                     *)
(***************************************************************************)
\* C38: in every state of the statistics, totalImports is the sum of
\* validImports, invalidImports and frameworkImports.
C38_TotalIsSumOfKinds ==
    stats.totalImports =
        stats.validImports + stats.invalidImports + stats.frameworkImports

\* C39: a validation that was in flight when clearCaches ran adds no entry to
\* the document cache or to the existence cache afterwards, so no later call
\* is answered from what that validation computed.
C39_ClearedCallWritesNothing ==
    [][(call[1].pc = "running" /\ call[1].clearedInFlight) =>
          /\ \A d \in Docs :
                _documentImportsCache'[d].has => _documentImportsCache[d].has
          /\ \A p \in Pkgs :
                _importExistenceCache'[p].has => _importExistenceCache[p].has
      ]_vars

\* C40: a cancellation requested while no scan runs does not reach the next
\* scan: processWorkspace clears the flag when it starts a scan, and a scan
\* during which no cancellation was requested returns only after every batch
\* of its candidate list has been processed.
C40_IdleCancellationIsForgotten ==
    [][/\ \A forceReprocess \in BOOLEAN :
            (processWorkspace(forceReprocess) /\ ~Busy) =>
                (~cancelProcessing' /\ scan'.pc = "count")
       /\ (processWorkspaceReturns /\ scan.admittedAtCancel = -1) =>
            /\ scan.i >= Len(scan.files)
            /\ \A k \in DOMAIN scan.files : scan.job[scan.files[k]].pc = "done"
      ]_vars

\* A scan of more than one batch that was started with the flag set, saw no
\* cancellation of its own, and has returned after its last batch.
C40_Witness ==
    /\ scan.pc = "idle"
    /\ returned.by = "scan"
    /\ scan.cancelledBefore
    /\ scan.admittedAtCancel = -1
    /\ ~cancelProcessing
    /\ Len(scan.files) > batchSize
    /\ scan.i >= Len(scan.files)
    /\ scan.processedCount > 0

====
